---------------------------- MODULE Spec2Model ----------------------------
(***************************************************************************)
(* Model of the YT-DL download server and its browser client.              *)
(*                                                                         *)
(*  - the streaming channel of the server: the "connection" handler, the   *)
(*    "start-download" handler, the stdout / stderr "data" handlers and    *)
(*    the "close" handler of a spawned process;                            *)
(*  - the progress extraction done by the stdout handler (two regular      *)
(*    expressions and parseFloat), on texts that are sequences of          *)
(*    one-character strings;                                               *)
(*  - the command rewriting done before spawn (includes / replace), on     *)
(*    commands that are sequences of fragments, the downloader name        *)
(*    "yt-dlp" always being a fragment of its own.                         *)
(***************************************************************************)
EXTENDS Integers, Sequences, FiniteSets, TLC

(***************************************************************************)
(* Bounds of the model.                                                    *)
(***************************************************************************)
\* server-side sockets ever opened
MaxSockets == 2
\* child processes ever spawned over the streaming channel
MaxProcs == 2
\* output chunks ever written by the child processes
MaxChunks == 2
\* fractional digits kept by the fixed-point image of a JavaScript number
FracDigits == 2
\* fragments of a command the rewriting is exercised with
MaxCmdLen == 3
\* pieces of a chunk the progress extraction is exercised with
MaxPieces == 4
\* pending timers of the auto-download trigger
MaxTimers == 1
\* output chunks ever written by the child processes of the browser client
MaxClientChunks == 1
\* POST /api/download requests ever handled
MaxRequests == 2
\* connections and start-download messages of the client whose renders are
\* followed one by one
MaxRenderSockets == 1
MaxRenderEmits == 1
\* connections, runs and output lines of the client whose log is filled
MaxLogSockets == 1
MaxLogRuns == 2
MaxLogLines == 101
MaxUrlLen == 5
MaxCuts == 2
MaxCalls == 3
\* videos whose command is copied, and copies of a url already in the
\* history
MaxVideos == 12
MaxRecopies == 1
\* executions of generated commands on the host, and the seconds in which
\* they start
MaxRuns == 2
MaxSeconds == 2
\* sockets, processes and requests of the server started in any environment
MaxGateSockets == 1
MaxGateProcs == 1
MaxGateRequests == 1

(***************************************************************************)
(* Texts: a text is a sequence of one-character strings.                   *)
(***************************************************************************)
Digit == {"0", "1", "2", "3", "4", "5", "6", "7", "8", "9"}

\* the white space class \s of the regular expressions, as far as the texts
\* of the model contain it
Space == {" ", "\n", "\t", "\r"}

Min(S) == CHOOSE x \in S : \A y \in S : x <= y

RECURSIVE Pow10(_)
Pow10(n) == IF n = 0 THEN 1 ELSE 10 * Pow10(n - 1)

\* numbers are held in units of 10^-FracDigits
Scale == Pow10(FracDigits)

DigitValue(c) ==
  CASE c = "0" -> 0 [] c = "1" -> 1 [] c = "2" -> 2 [] c = "3" -> 3
    [] c = "4" -> 4 [] c = "5" -> 5 [] c = "6" -> 6 [] c = "7" -> 7
    [] c = "8" -> 8 [] c = "9" -> 9

\* the value, as a natural number, of a text of digits
RECURSIVE DigitsValue(_)
DigitsValue(t) ==
  IF t = << >> THEN 0
  ELSE 10 * DigitsValue(SubSeq(t, 1, Len(t) - 1)) + DigitValue(t[Len(t)])

\* a text of digits padded with zeros, or cut, to n digits
PadRight(t, n) ==
  [i \in 1..n |-> IF i <= Len(t) THEN t[i] ELSE "0"]

\* parseFloat on a text  digits  or  digits.digits  (what the capture group
\* of both regular expressions holds), in units of 10^-FracDigits
ParseFloat(t) ==
  LET dots == {i \in 1..Len(t) : t[i] = "."}
      dot  == IF dots = {} THEN Len(t) + 1 ELSE Min(dots)
      int  == SubSeq(t, 1, dot - 1)
      frac == SubSeq(t, dot + 1, Len(t))
  IN  DigitsValue(int) * Scale + DigitsValue(PadRight(frac, FracDigits))

\* the literal  [progress]  of the primary pattern
ProgressLit == <<"[", "p", "r", "o", "g", "r", "e", "s", "s", "]">>

\* the number of consecutive characters of class cls in s from position i
RECURSIVE Run(_, _, _)
Run(s, i, cls) ==
  IF i <= Len(s) /\ s[i] \in cls THEN 1 + Run(s, i + 1, cls) ELSE 0

HasAt(s, i, c) == i <= Len(s) /\ s[i] = c

\* (\d+(\.\d+)?)%  tried at position i: the last position of the capture
\* group, or 0 when the pattern does not match there.  \d+ is greedy, and
\* giving digits back never helps: the next character is then a digit.
NumberAt(s, i) ==
  LET n1 == Run(s, i, Digit)
      e1 == i + n1
      n2 == IF HasAt(s, e1, ".") THEN Run(s, e1 + 1, Digit) ELSE 0
      e2 == e1 + 1 + n2
  IN  IF n1 = 0 THEN 0
      ELSE IF n2 > 0 /\ HasAt(s, e2, "%") THEN e2 - 1
      ELSE IF HasAt(s, e1, "%") THEN e1 - 1
      ELSE 0

\* \[progress\]\s+(\d+(\.\d+)?)%  tried at position i: the first position
\* of the capture group, or 0
ProgressAt(s, i) ==
  LET n == Len(ProgressLit)
      w == Run(s, i + n, Space)
  IN  IF /\ i + n - 1 <= Len(s)
         /\ SubSeq(s, i, i + n - 1) = ProgressLit
         /\ w > 0
         /\ NumberAt(s, i + n + w) # 0
      THEN i + n + w
      ELSE 0

\* The result of String.match with a pattern of one capture group that the
\* handlers read: null, or an array m of which only m[1], the text of
\* capture group 1, is used.  null is the empty tuple, a match is <<m[1]>>.
Null == << >>

\* output.match(/\[progress\]\s+(\d+(\.\d+)?)%/): the leftmost match
progressMatch(output) ==
  LET at == {i \in 1..Len(output) : ProgressAt(output, i) # 0}
  IN  IF at = {} THEN Null
      ELSE LET from == ProgressAt(output, Min(at))
           IN  <<SubSeq(output, from, NumberAt(output, from))>>

\* output.match(/(\d+(\.\d+)?)%/): the leftmost match
fallbackMatch(output) ==
  LET at == {i \in 1..Len(output) : NumberAt(output, i) # 0}
  IN  IF at = {} THEN Null
      ELSE <<SubSeq(output, Min(at), NumberAt(output, Min(at)))>>

(***************************************************************************)
(* Commands: a command is a sequence of fragments of text; every           *)
(* occurrence of the downloader name is a fragment of its own.             *)
(***************************************************************************)
Downloader == "yt-dlp"

\* what the first occurrence of the downloader name is replaced by
ProgressFlags == " --newline --progress-template \"[progress] %(progress.percentage)s%\""

\* command.includes("yt-dlp")
Includes(command) == \E i \in 1..Len(command) : command[i] = Downloader

\* command.replace("yt-dlp", "yt-dlp --newline --progress-template ..."):
\* a string pattern replaces the first occurrence only
Replace(command) ==
  LET at == {i \in 1..Len(command) : command[i] = Downloader}
  IN  IF at = {} THEN command
      ELSE SubSeq(command, 1, Min(at) - 1) \o <<Downloader, ProgressFlags>>
             \o SubSeq(command, Min(at) + 1, Len(command))

\* as modifiedCommand, had the result of replace been dropped
modifiedCommandDropped(command) == command

\* let modifiedCommand = command; if (command.includes("yt-dlp")) { ... }
modifiedCommand(command) ==
  IF Includes(command) THEN Replace(command) ELSE command

(***************************************************************************)
(* The values the environment supplies.                                    *)
(***************************************************************************)
\* commands a peer sends over the streaming channel
CmdPlain == <<"echo hi">>
CmdDownload == <<Downloader, " --no-playlist \"https://youtu.be/x\"">>
\* the streaming channel is exercised with the downloader command; the
\* rewriting of other commands is exercised by SpecCmd
Commands == {CmdDownload}

\* fragments of the commands the rewriting is exercised with
CmdFragments == {Downloader, "echo ", " -x ", " && "}

RECURSIVE SeqsUpTo(_, _)
SeqsUpTo(S, n) ==
  IF n = 0 THEN {<< >>}
  ELSE LET shorter == SeqsUpTo(S, n - 1)
       IN  shorter \cup {Append(t, x) : t \in shorter, x \in S}

CmdInputs == SeqsUpTo(CmdFragments, MaxCmdLen)

\* chunks a child process writes
M10 == <<"[", "p", "r", "o", "g", "r", "e", "s", "s", "]", " ", "1", "0", ".", "0", "%", "\n">>
M55 == <<"[", "p", "r", "o", "g", "r", "e", "s", "s", "]", " ", "5", "5", ".", "0", "%", "\n">>
\* the head and the tail of M55 when the pipe delivers it in two reads
M55Head == <<"[", "p", "r", "o", "g", "r", "e", "s", "s", "]", " ", "5">>
M55Tail == <<"5", ".", "0", "%", "\n">>
NoNumbers == <<"n", "o", " ", "n", "u", "m", "b", "e", "r", "s", " ", "h", "e", "r", "e">>
StdoutChunks == {M10, M55, M10 \o M55, NoNumbers}
StderrChunks == {M55}

\* pieces of the chunks the progress extraction is exercised with
M7 == <<"[", "p", "r", "o", "g", "r", "e", "s", "s", "]", " ", "7", "%">>
ExtractPieces ==
  {M7, <<"[", "p", "r", "o", "g", "r", "e", "s", "s", "]", " ">>, <<"4">>, <<".", "5">>, <<"%">>, <<"x">>}

RECURSIVE Concat(_)
Concat(ts) == IF ts = << >> THEN << >> ELSE Head(ts) \o Concat(Tail(ts))

ExtractInputs ==
  {Concat(ps) : ps \in SeqsUpTo(ExtractPieces, MaxPieces)} \ {<< >>}

\* exit codes the "close" event reports: 0, non-zero, or null when the
\* process was ended by a signal
ExitCodes == {"0", "1", "null"}

(***************************************************************************)
(* State of the server.                                                    *)
(***************************************************************************)
VARIABLES
  sockets,   \* the server-side sockets, by id: [connected]
  inbox,     \* per socket, the start-download messages not yet handled
  sent,      \* per socket, every command the peer sent on it, in order
  procs,     \* the spawned child processes, in spawn order
  emitted    \* per socket, the events emitted on it: [event, arg, proc]

serverVars == <<sockets, inbox, sent, procs, emitted>>

(***************************************************************************)
(* State of the browser client (the App component and its socket).         *)
(***************************************************************************)
VARIABLES
  url,                \* useState(''): a sequence of fragments
  type,               \* useState('subtitles')
  outputPath,         \* useState('/Users/yuliu/Movies/YouTube DL')
  isValid,            \* useState(null): "null", "true" or "false"
  isPlaylist,         \* useState(false)
  isDownloading,      \* useState(false)
  downloadProgress,   \* useState(0)
  downloadLogs,       \* useState([])
  downloadStatus,     \* useState('idle')
  isSocketConnected,  \* useState(false)
  autoDownload,       \* useState(false)
  timers,             \* the pending setTimeout callbacks of the validation
                      \* effect: the generatedCommand each one closes over
  urlEffect,          \* the render with a new url is done, its validation
                      \* effect has not run yet
  socketRef,          \* the server-side socket the client socket is
                      \* connected to, 0 while it is not connected
  received,           \* how many events of that socket the client has got
  sendBuffer,         \* what the client socket emitted while not connected
  emits               \* how many times the client emitted start-download

urlVars ==
  <<url, type, outputPath, isValid, isPlaylist, autoDownload, timers, urlEffect>>
runVars == <<isDownloading, downloadProgress, downloadLogs, downloadStatus>>
linkVars == <<isSocketConnected, socketRef, received, sendBuffer, emits>>
clientVars == <<urlVars, runVars, linkVars>>

(***************************************************************************)
(* State of the HTTP download endpoint.                                    *)
(***************************************************************************)
VARIABLES
  VERCEL,     \* process.env.VERCEL
  NODE_ENV,   \* process.env.NODE_ENV
  listening,  \* httpServer.listen has been called
  responses,  \* the requests handled so far, each with its response
  apiProcs,   \* the child processes the endpoint spawned, in spawn order
  initialized,  \* let initialized = false of the serverless handler
  inits,      \* the calls of createServerApp the handler has made, in
              \* call order: [done]
  calls       \* the calls of the handler, in order of arrival: [pc, init],
              \* pc "await" before and "app" after app(req, res), init the
              \* call of createServerApp it awaits or awaited, 0 for none

fnVars == <<initialized, inits, calls>>
envVars == <<VERCEL, NODE_ENV, listening, fnVars>>
apiVars == <<envVars, responses, apiProcs>>

(***************************************************************************)
(* State of the host on which the generated compound commands run.         *)
(***************************************************************************)
VARIABLES
  clock,    \* the time of the file system
  TS_FILE,  \* per second of $(date +%s), the modification time of the
            \* sentinel /tmp/yt_dlp_ts_<second>, 0 while it does not exist
  files,    \* the .srt files under outputPath: [mtime, labelled], mtime 0
            \* while the file does not exist
  runs      \* the executions of generated commands, in start order

shVars == <<clock, TS_FILE, files, runs>>

(***************************************************************************)
(* The history of the copied commands (App component).                     *)
(***************************************************************************)
VARIABLES
  history,  \* useState<HistoryItem[]>([]): [url, type, command, timestamp]
  now       \* Date.now()

historyVars == <<history, now>>

hostVars == <<apiVars, shVars, historyVars>>
appVars == <<serverVars, clientVars, apiVars, historyVars>>

vars == <<serverVars, clientVars, apiVars, shVars, historyVars>>

SocketIds == 1..Len(sockets)
ProcIds == 1..Len(procs)

\* chunks written so far by all child processes
Written ==
  LET RECURSIVE Sum(_)
      Sum(n) == IF n = 0 THEN 0
                ELSE Len(procs[n].stdout) + Len(procs[n].stderr) + Sum(n - 1)
  IN  Sum(Len(procs))

\* start-download messages sent and not yet handled
Pending ==
  LET RECURSIVE Sum(_)
      Sum(n) == IF n = 0 THEN 0 ELSE Len(inbox[n]) + Sum(n - 1)
  IN  Sum(Len(inbox))

Event(name, arg, p) == [event |-> name, arg |-> arg, proc |-> p]

ErrorPrefix == <<"E", "R", "R", "O", "R", ":", " ">>

\* as SocketOf, had the handlers looked up the newest socket instead of
\* using the one of their closure
SocketOfNewest(p) == Len(sockets)

\* the socket the handlers of process p emit on: the one of the closure of
\* the connection handler that spawned it
SocketOf(p) == procs[p].socket

\* socket.emit(...) by a handler of process p: the events are appended to
\* what the socket of the handler has emitted
Emit(p, events) ==
  emitted' = [emitted EXCEPT ![SocketOf(p)] = @ \o events]

\* as StdoutEvents, had the handler forwarded the chunk and nothing else
StdoutEventsLogOnly(p, output) ==
  <<Event("download-log", output, p)>>

\* as StdoutEvents, had the handler tried the bare pattern first
StdoutEventsBareFirst(p, output) ==
  <<Event("download-log", output, p)>> \o
  ( IF fallbackMatch(output) # Null
    THEN <<Event("download-progress", ParseFloat(fallbackMatch(output)[1]), p)>>
    ELSE << >> )

\* process.stdout.on("data"): the events one chunk gives rise to
StdoutEvents(p, output) ==
  <<Event("download-log", output, p)>> \o
  ( IF progressMatch(output) # Null
    THEN <<Event("download-progress", ParseFloat(progressMatch(output)[1]), p)>>
    ELSE IF fallbackMatch(output) # Null
         THEN <<Event("download-progress", ParseFloat(fallbackMatch(output)[1]), p)>>
         ELSE << >> )

\* process.stderr.on("data")
StderrEvents(p, data) ==
  <<Event("download-log", ErrorPrefix \o data, p)>>

\* as CloseEvents, had the handler tested !code: null counts as success
CloseEventsNotCode(p, code) ==
  <<Event("download-complete", code \in {"0", "null"}, p)>>

\* process.on("close", (code) => ...)
CloseEvents(p, code) ==
  <<Event("download-complete", code = "0", p)>>

\* as CloseReady, had the handler been attached to "exit", the event of a
\* child process that has ended, whatever its stdio streams still hold
CloseReadyOnExit(proc) == proc.exitCode # "running"

\* "close" is the event of a child process that has ended and whose stdio
\* streams have been closed, that is after their last "data" event
CloseReady(proc) ==
  /\ proc.exitCode # "running"
  /\ proc.stdoutRead = Len(proc.stdout)
  /\ proc.stderrRead = Len(proc.stderr)

(***************************************************************************)
(* POST /api/download: the handler of the router (api.ts) and the handler  *)
(* of the single-file server (server.ts).                                  *)
(***************************************************************************)
\* a field the JSON body does not hold, an environment variable not set
Undefined == "undefined"

\* !v of a string or undefined
Falsy(v) == v \in {Undefined, ""}

\* request bodies: url missing, empty or given; type missing, one of the
\* three the handler knows, or another; outputPath missing or given
Bodies ==
  [url : {Undefined, "", "https://youtu.be/x"},
   type : {Undefined, "video", "audio", "subtitle", "transcribe"},
   outputPath : {Undefined, "/d/"}]

\* values of process.env.VERCEL
EnvValues == {Undefined, "", "1"}

\* const path = outputPath || "/Users/yuliu/Movies/YouTube DL/"
downloadPath(body) ==
  IF Falsy(body.outputPath) THEN "/Users/yuliu/Movies/YouTube DL/"
  ELSE body.outputPath

\* const downloadType = type || "video"
downloadType(body) ==
  IF Falsy(body.type) THEN "video" ELSE body.type

OutputTemplate == "%(title)s/%(title)s.%(ext)s\""

SubLangs ==
  " --write-subs --write-auto-subs --sub-langs \"en.*,zh-Hans,zh-Hant,zh-Hans-en,zh-Hant-en,zh.*\" --convert-subs srt"

\* let command = ""; if (downloadType === "video") ... else if "audio" ...
\* else if "subtitle" ...
downloadCommand(body) ==
  LET head == <<Downloader, " --no-playlist \"", body.url, "\" -o \"",
                downloadPath(body), OutputTemplate>>
  IN  CASE downloadType(body) = "video" ->
             head \o <<SubLangs,
               " --embed-subs --embed-metadata --merge-output-format mkv --ignore-errors --no-cache-dir">>
        [] downloadType(body) = "audio" ->
             head \o
               <<" -x --audio-format mp3 --audio-quality 0 --embed-thumbnail --embed-metadata --ignore-errors --no-cache-dir">>
        [] downloadType(body) = "subtitle" ->
             head \o <<SubLangs,
               " --skip-download --ignore-errors --no-cache-dir">>
        [] OTHER -> << >>

\* res.status(status).json(json), nothing spawned
Respond(app, body, status, json) ==
  /\ responses' = Append(responses,
       [app |-> app, body |-> body, status |-> status, json |-> json])
  /\ UNCHANGED apiProcs

\* spawn("bash", ["-c", command]) and then res.json({status: "started",
\* command, message}), in the same call of the handler
SpawnAndRespond(app, body) ==
  /\ apiProcs' = Append(apiProcs,
       [spawned |-> <<"bash", "-c", downloadCommand(body)>>,
        exitCode |-> "running"])
  /\ responses' = Append(responses,
       [app |-> app, body |-> body, status |-> 200,
        json |-> [status |-> "started",
                  command |-> downloadCommand(body),
                  message |-> "Download process started in background. Check server logs for details."]])

\* apiRouter.post("/download") of api.ts
routerDownload(body) ==
  /\ IF Falsy(body.url)
     THEN Respond("router", body, 400, [error |-> "Missing URL"])
     ELSE IF ~Falsy(VERCEL)
     THEN Respond("router", body, 403,
            [error |-> "Download not supported in Vercel environment. Please use local server."])
     ELSE SpawnAndRespond("router", body)
  /\ UNCHANGED <<serverVars, clientVars, envVars, shVars, historyVars>>

\* app.post("/api/download") of server.ts
serverDownload(body) ==
  /\ IF Falsy(body.url)
     THEN Respond("server", body, 400, [error |-> "Missing URL"])
     ELSE SpawnAndRespond("server", body)
  /\ UNCHANGED <<serverVars, clientVars, envVars, shVars, historyVars>>

\* a process of the endpoint ends: its "close" handler writes to the
\* console
ApiClose(p, code) ==
  /\ apiProcs[p].exitCode = "running"
  /\ apiProcs' = [apiProcs EXCEPT ![p].exitCode = code]
  /\ UNCHANGED <<serverVars, clientVars, envVars, responses, shVars, historyVars>>

(***************************************************************************)
(* The execution by bash of the compound command of the subtitles and the  *)
(* transcribe modes.  A list  a && b  stops at the first command whose     *)
(* status is not 0 and has that status; a ; ends a list whatever its       *)
(* status; the status of a for loop and of an if is that of the last       *)
(* command they ran; the status of a pipeline is that of its last command. *)
(***************************************************************************)
\* the seconds $(date +%s) may return when a run starts
Seconds == 1..MaxSeconds

\* the .srt files: 0 was there before any run, r is written by the primary
\* step of run r
FileIds == 0..MaxRuns

RunIds == 1..Len(runs)

\* exit statuses of yt-dlp, whisper, mv and sed: success or failure
Statuses == {0, 1}

\* no command has run: one old .srt file, no sentinel
InitHost ==
  /\ clock = 1
  /\ TS_FILE = [sec \in Seconds |-> 0]
  /\ files = [f \in FileIds |->
               [mtime |-> IF f = 0 THEN 1 ELSE 0, labelled |-> FALSE]]
  /\ runs = << >>

\* [ -f "$f" ] && [ "$f" -nt "$TS_FILE" ]: f exists and is newer than the
\* sentinel, or f exists and the sentinel does not
Newer(f, sec) ==
  /\ files[f].mtime # 0
  /\ TS_FILE[sec] = 0 \/ files[f].mtime > TS_FILE[sec]

\* bash -c starts the command of mode in second sec
ShStart(mode, sec) ==
  /\ runs' = Append(runs,
       [mode |-> mode, sec |-> sec, pc |-> "touch", found_subs |-> "",
        touched |-> 0, removed |-> FALSE, produced |-> FALSE,
        fallback |-> FALSE, processed |-> {},
        moved |-> FALSE, overwrote |-> FALSE])
  /\ UNCHANGED <<clock, TS_FILE, files>>
  /\ UNCHANGED appVars

\* TS_FILE="/tmp/yt_dlp_ts_$(date +%s)" && touch "$TS_FILE"
ShTouch(r) ==
  /\ runs[r].pc = "touch"
  /\ clock' = clock + 1
  /\ TS_FILE' = [TS_FILE EXCEPT ![runs[r].sec] = clock + 1]
  /\ runs' = [runs EXCEPT ![r].touched = clock + 1, ![r].pc = "primary"]
  /\ UNCHANGED files
  /\ UNCHANGED appVars

\* subtitles: ... && yt-dlp --skip-download ... && echo ... &&
\* found_subs=false;  the step writes a subtitle file or none and exits
\* with status
ShPrimary(r, status, writes) ==
  /\ runs[r].pc = "primary"
  /\ runs[r].mode = "subtitles"
  /\ clock' = IF writes THEN clock + 1 ELSE clock
  /\ files' = IF writes THEN [files EXCEPT ![r].mtime = clock + 1] ELSE files
  /\ runs' = [runs EXCEPT
       ![r].produced = writes,
       ![r].found_subs = IF status = 0 THEN "false" ELSE @,
       ![r].pc = "loop"]
  /\ UNCHANGED TS_FILE
  /\ UNCHANGED appVars

\* subtitles: for f in "${outputPath}/"*/*.srt ; do ... done;  every file
\* that passes the two tests sets found_subs, and is renamed and rewritten
\* as text unless it carries a label
ShLoop(r) ==
  /\ runs[r].pc = "loop"
  /\ LET passed == {f \in FileIds : Newer(f, runs[r].sec)}
         mine == {f \in passed : ~files[f].labelled}
     IN  /\ files' = [f \in FileIds |->
                       IF f \in mine THEN [files[f] EXCEPT !.labelled = TRUE]
                       ELSE files[f]]
         /\ runs' = [runs EXCEPT
              ![r].found_subs = IF passed # {} THEN "true" ELSE @,
              ![r].processed = @ \cup mine,
              ![r].pc = "if"]
  /\ UNCHANGED <<clock, TS_FILE>>
  /\ UNCHANGED appVars

\* subtitles: if [ "$found_subs" = "false" ]; then ... else echo ...; fi
ShIf(r) ==
  /\ runs[r].pc = "if"
  /\ runs' = [runs EXCEPT
       ![r].fallback = (runs[r].found_subs = "false"),
       ![r].pc = IF runs[r].found_subs = "false" THEN "fallback" ELSE "rm"]
  /\ UNCHANGED <<clock, TS_FILE, files>>
  /\ UNCHANGED appVars

\* the status of  whisper ... && mv ... && sed ... | uniq > ... ;  the body
\* of the loop over the .wav files
WhisperBody(whisper, mv, sed) ==
  IF whisper # 0 THEN whisper ELSE IF mv # 0 THEN mv ELSE 0

\* [ -f "${f%.*}.[Whisper].srt" ]: the runs are executions of the command
\* of one url and one output path, so that the file is there once the mv
\* of a run has put it there
WhisperSrtExists == \E q \in RunIds : runs[q].moved

\* subtitles, then branch: echo ... && yt-dlp -x ... && for ... done &&
\* echo ...;  followed by  fi && rm "$TS_FILE".  The body of the loop runs
\* mv "${f%.*}.srt" "${f%.*}.[Whisper].srt" after a whisper that succeeded,
\* and mv replaces the target when there is one.
ShFallback(r, status, whisper, mv, sed) ==
  /\ runs[r].pc = "fallback"
  /\ LET moves == status = 0 /\ whisper = 0 /\ mv = 0
     IN  runs' = [runs EXCEPT
           ![r].moved = moves,
           ![r].overwrote = moves /\ WhisperSrtExists,
           ![r].pc = IF status = 0 /\ WhisperBody(whisper, mv, sed) = 0
                     THEN "rm" ELSE "end"]
  /\ UNCHANGED <<clock, TS_FILE, files>>
  /\ UNCHANGED appVars

\* transcribe: ... && echo ... && yt-dlp -x ... && for f in *.mp3 ; do
\* whisper ... && mv ... && mv ...; done && echo ... && rm "$TS_FILE"
ShTranscribe(r, status, whisper, mv1, mv2) ==
  /\ runs[r].pc = "primary"
  /\ runs[r].mode = "transcribe"
  /\ runs' = [runs EXCEPT ![r].pc =
       IF status = 0 /\ whisper = 0 /\ mv1 = 0 /\ mv2 = 0
       THEN "rm" ELSE "end"]
  /\ UNCHANGED <<clock, TS_FILE, files>>
  /\ UNCHANGED appVars

\* rm "$TS_FILE"
ShRm(r) ==
  /\ runs[r].pc = "rm"
  /\ TS_FILE' = [TS_FILE EXCEPT ![runs[r].sec] = 0]
  /\ runs' = [runs EXCEPT ![r].removed = TRUE, ![r].pc = "end"]
  /\ UNCHANGED <<clock, files>>
  /\ UNCHANGED appVars

(***************************************************************************)
(* Initial state: the server listens, nobody is connected.                 *)
(***************************************************************************)
InitServer ==
  /\ sockets = << >>
  /\ inbox = << >>
  /\ sent = << >>
  /\ procs = << >>
  /\ emitted = << >>

\* the App component as mounted: the initial values of its state
InitClient ==
  /\ url = << >>
  /\ type = "subtitles"
  /\ outputPath = "/Users/yuliu/Movies/YouTube DL"
  /\ isValid = "null"
  /\ isPlaylist = FALSE
  /\ isDownloading = FALSE
  /\ downloadProgress = 0
  /\ downloadLogs = << >>
  /\ downloadStatus = "idle"
  /\ isSocketConnected = FALSE
  /\ autoDownload = FALSE
  /\ timers = << >>
  /\ urlEffect = FALSE
  /\ history = << >>
  /\ now = 0
  /\ socketRef = 0
  /\ received = 0
  /\ sendBuffer = << >>
  /\ emits = 0

\* the endpoint has handled nothing; VERCEL and NODE_ENV are not set, so
\* that the module has called httpServer.listen
InitFn ==
  /\ initialized = FALSE
  /\ inits = << >>
  /\ calls = << >>

InitApi ==
  /\ VERCEL = Undefined
  /\ NODE_ENV = Undefined
  /\ listening = TRUE
  /\ responses = << >>
  /\ apiProcs = << >>
  /\ InitFn

Init == InitServer /\ InitClient /\ InitApi /\ InitHost

(***************************************************************************)
(* Actions of the peers of the server.                                     *)
(***************************************************************************)
\* a client connects: io.on("connection") runs for a new socket
Connect ==
  /\ listening
  /\ sockets' = Append(sockets, [connected |-> TRUE])
  /\ inbox' = Append(inbox, << >>)
  /\ sent' = Append(sent, << >>)
  /\ emitted' = Append(emitted, << >>)
  /\ UNCHANGED procs

\* a disconnect handler that would end the runs of the connection
DisconnectKills(s) ==
  /\ sockets[s].connected
  /\ sockets' = [sockets EXCEPT ![s].connected = FALSE]
  /\ inbox' = [inbox EXCEPT ![s] = << >>]
  /\ procs' = [p \in ProcIds |->
                 IF procs[p].socket = s /\ procs[p].exitCode = "running"
                 THEN [procs[p] EXCEPT !.exitCode = "null"]
                 ELSE procs[p]]
  /\ UNCHANGED <<sent, emitted>>

\* the connection ends; what was sent on it and not yet handled is lost
Disconnect(s) ==
  /\ sockets[s].connected
  /\ sockets' = [sockets EXCEPT ![s].connected = FALSE]
  /\ inbox' = [inbox EXCEPT ![s] = << >>]
  /\ UNCHANGED <<sent, procs, emitted>>

\* the peer of socket s sends start-download(command)
SendStart(s, command) ==
  /\ sockets[s].connected
  /\ inbox' = [inbox EXCEPT ![s] = Append(@, command)]
  /\ sent' = [sent EXCEPT ![s] = Append(@, command)]
  /\ UNCHANGED <<sockets, procs, emitted>>

(***************************************************************************)
(* Handlers of the server.                                                 *)
(***************************************************************************)
\* a process as the start-download handler leaves it
Spawned(s, command) ==
  [ socket |-> s,
    command |-> command,
    spawned |-> <<"bash", "-c", modifiedCommand(command)>>,
    stdout |-> << >>, stdoutRead |-> 0,
    stderr |-> << >>, stderrRead |-> 0,
    exitCode |-> "running",
    closed |-> FALSE ]

\* socket.on("start-download", (command) => ...)
StartDownload(s) ==
  /\ inbox[s] # << >>
  /\ LET command == Head(inbox[s])
     IN  procs' = Append(procs, Spawned(s, command))
  /\ inbox' = [inbox EXCEPT ![s] = Tail(@)]
  /\ UNCHANGED <<sockets, sent, emitted>>

\* the child process p writes a chunk on its standard output
WriteStdout(p, chunk) ==
  /\ procs[p].exitCode = "running"
  /\ procs' = [procs EXCEPT ![p].stdout = Append(@, chunk)]
  /\ UNCHANGED <<sockets, inbox, sent, emitted>>

\* the child process p writes a chunk on its standard error
WriteStderr(p, chunk) ==
  /\ procs[p].exitCode = "running"
  /\ procs' = [procs EXCEPT ![p].stderr = Append(@, chunk)]
  /\ UNCHANGED <<sockets, inbox, sent, emitted>>

\* the child process p ends
Exit(p, code) ==
  /\ procs[p].exitCode = "running"
  /\ procs' = [procs EXCEPT ![p].exitCode = code]
  /\ UNCHANGED <<sockets, inbox, sent, emitted>>

\* process.stdout.on("data", (data) => ...) for the next chunk of p
StdoutData(p) ==
  /\ procs[p].stdoutRead < Len(procs[p].stdout)
  /\ LET output == procs[p].stdout[procs[p].stdoutRead + 1]
     IN  Emit(p, StdoutEvents(p, output))
  /\ procs' = [procs EXCEPT ![p].stdoutRead = @ + 1]
  /\ UNCHANGED <<sockets, inbox, sent>>

\* process.stderr.on("data", (data) => ...) for the next chunk of p
StderrData(p) ==
  /\ procs[p].stderrRead < Len(procs[p].stderr)
  /\ LET data == procs[p].stderr[procs[p].stderrRead + 1]
     IN  Emit(p, StderrEvents(p, data))
  /\ procs' = [procs EXCEPT ![p].stderrRead = @ + 1]
  /\ UNCHANGED <<sockets, inbox, sent>>

\* process.on("close", (code) => ...)
Close(p) ==
  /\ ~procs[p].closed
  /\ CloseReady(procs[p])
  /\ Emit(p, CloseEvents(p, procs[p].exitCode))
  /\ procs' = [procs EXCEPT ![p].closed = TRUE]
  /\ UNCHANGED <<sockets, inbox, sent>>

(***************************************************************************)
(* The browser client: validation of the url, generation of the command,   *)
(* the start of a download and the handlers of the socket events.          *)
(***************************************************************************)
\* the urls the user enters: sequences of fragments
UrlWatch == <<"https://", "www.", "youtube.com", "/", "watch?v=abc123">>
UrlList == <<"https://", "youtu.be", "/", "abc123", "?list=", "PL1">>
UrlOther == <<"https://", "example.com", "/", "abc123">>
UrlInputs == {<< >>, UrlWatch, UrlList, UrlOther}

\* a prefix whose www. group is not optional
AfterPrefixWww(u) ==
  LET a == IF Len(u) >= 1 /\ u[1] \in {"http://", "https://"} THEN 2 ELSE 1
  IN  IF Len(u) >= a /\ u[a] = "www." THEN a + 1 ELSE Len(u) + 1

\* ^(https?:\/\/)?(www\.)?  : the position behind the two optional groups
AfterPrefix(u) ==
  LET a == IF Len(u) >= 1 /\ u[1] \in {"http://", "https://"} THEN 2 ELSE 1
  IN  IF Len(u) >= a /\ u[a] = "www." THEN a + 1 ELSE a

\* .+$ from fragment i of u on: at least one character up to the end of the
\* string, none of them a line break
DotPlus(u, i) ==
  /\ i <= Len(u)
  /\ \A j \in i..Len(u) : u[j] # "\n"

\* /^(https?:\/\/)?(www\.)?(youtube\.com|youtu\.be)\/.+$/.test(u); the
\* fragment "/video/" is a slash followed by "video/"
youtubeRegex(u) ==
  LET h == AfterPrefix(u)
  IN  /\ Len(u) >= h + 1
      /\ u[h] \in {"youtube.com", "youtu.be"}
      /\ \/ u[h + 1] = "/" /\ DotPlus(u, h + 2)
         \/ u[h + 1] = "/video/" /\ \A j \in (h + 2)..Len(u) : u[j] # "\n"

\* /^(https?:\/\/)?(www\.)?bilibili\.com\/video\/.+$/.test(u)
bilibiliRegex(u) ==
  LET h == AfterPrefix(u)
  IN  /\ Len(u) >= h + 1
      /\ u[h] = "bilibili.com"
      /\ u[h + 1] = "/video/"
      /\ DotPlus(u, h + 2)

\* /[&?]list=([^&]+)/.test(u)
playlistRegex(u) ==
  \E i \in 1..(Len(u) - 1) :
    /\ u[i] \in {"?list=", "&list="}
    /\ u[i + 1] \notin {"&", "&list="}

\* case 'video' of generatedCommand; text that is not ASCII (the messages
\* of echo, the label tags) is written ...
VideoCommand(u, path, playlistFlag, baseOutput) ==
      <<"TS_FILE=\"/tmp/yt_dlp_ts_$(date +%s)\" && touch \"$TS_FILE\" && \\\n",
         Downloader,
         " ">>
      \o <<playlistFlag>>
      \o <<" --merge-output-format mkv --write-subs --write-auto-subs --sub-langs \"en.*,zh-Hans,zh-Hant,zh-Hans-en,zh-Hant-en,zh.*\" --convert-subs srt --embed-subs --embed-thumbnail --embed-metadata --ignore-errors --sleep-subtitles 5 --no-cache-dir ">>
      \o baseOutput
      \o <<" \"">>
      \o u
      \o <<"\" && \\\n",
         "echo \"... (...)...\" && \\\n",
         "found_subs=false; \\\n",
         "for f in \"">>
      \o <<path>>
      \o <<"/\"*/*.srt ; do \\\n",
         "  [ -f \"$f\" ] || continue; \\\n",
         "  [ \"$f\" -nt \"$TS_FILE\" ] || continue; \\\n",
         "  found_subs=true; \\\n",
         "  [[ \"$f\" == *\"[...]\"* ]] || [[ \"$f\" == *\"[...]\"* ]] || [[ \"$f\" == *\"[...]\"* ]] && continue; \\\n",
         "  new_name=\"$f\"; \\\n",
         "  if [[ \"$f\" == *\"orig\"* ]]; then label=\"...\"; \\\n",
         "  elif [[ \"$f\" == *\"en-en\"* ]]; then label=\"...\"; \\\n",
         "  elif [[ \"$f\" == *\"-en\"* ]] || [[ \"$f\" == *\"-zh-\"* ]] || [[ \"$f\" == *\".zh-Hans.\"* ]] || [[ \"$f\" == *\".zh-Hant.\"* ]]; then label=\"...\"; \\\n",
         "  else label=\"...\"; fi; \\\n",
         "  new_name=\"${f%.*}.[$label].srt\"; \\\n",
         "  [ \"$f\" != \"$new_name\" ] && [ ! -f \"$new_name\" ] && mv \"$f\" \"$new_name\"; \\\n",
         "  sed -E 's/<[^>]*>//g; /^[0-9][0-9]:[0-9][0-9]:[0-9][0-9]/d; /^[0-9]+$/d; /^WEBVTT/d; /^Kind:/d; /^Language:/d; /^$/d' \"$new_name\" | uniq > \"${new_name%.*}.txt\" ; \\\n",
         "done; \\\n",
         "if [ \"$found_subs\" = \"false\" ]; then \\\n",
         "  echo \"... Whisper ......\" && \\\n",
         "  for f in \"">>
      \o <<path>>
      \o <<"/\"*/*.mkv ; do \\\n",
         "    [ -f \"$f\" ] || continue; \\\n",
         "    [ \"$f\" -nt \"$TS_FILE\" ] || continue; \\\n",
         "    whisper \"$f\" --model medium --language Chinese --output_dir \"${f%/*}\" --output_format srt && \\\n",
         "    mv \"${f%.*}.srt\" \"${f%.*}.[Whisper].srt\" && \\\n",
         "    sed -E 's/<[^>]*>//g; /^[0-9][0-9]:[0-9][0-9]:[0-9][0-9]/d; /^[0-9]+$/d; /^WEBVTT/d; /^Kind:/d; /^Language:/d; /^$/d' \"${f%.*}.[Whisper].srt\" | uniq > \"${f%.*}.[Whisper].txt\" ; \\\n",
         "  done && \\\n",
         "  echo \"... Whisper ...\"; \\\n",
         "else \\\n",
         "  echo \"...\"; \\\n",
         "fi && rm \"$TS_FILE\"">>

\* case 'audio' of generatedCommand
AudioCommand(u, path, playlistFlag, baseOutput) ==
      <<Downloader,
         " ">>
      \o <<playlistFlag>>
      \o <<" -x --audio-format mp3 --embed-thumbnail --embed-metadata --ignore-errors ">>
      \o baseOutput
      \o <<" \"">>
      \o u
      \o <<"\"">>

\* case 'subtitles' of generatedCommand; text that is not ASCII (the messages
\* of echo, the label tags) is written ...
SubtitlesCommand(u, path, playlistFlag, baseOutput) ==
      <<"TS_FILE=\"/tmp/yt_dlp_ts_$(date +%s)\" && touch \"$TS_FILE\" && \\\n",
         Downloader,
         " ">>
      \o <<playlistFlag>>
      \o <<" \"">>
      \o u
      \o <<"\" -o \"">>
      \o <<path>>
      \o <<"/%(title)s/%(title)s.%(ext)s\" --write-subs --write-auto-subs --sub-langs \"en.*,zh-Hans,zh-Hant,zh-Hans-en,zh-Hant-en,zh.*\" --convert-subs srt --skip-download --ignore-errors --sleep-subtitles 5 --no-cache-dir && \\\n",
         "echo \"... (...)...\" && \\\n",
         "found_subs=false; \\\n",
         "for f in \"">>
      \o <<path>>
      \o <<"/\"*/*.srt ; do \\\n",
         "  [ -f \"$f\" ] || continue; \\\n",
         "  [ \"$f\" -nt \"$TS_FILE\" ] || continue; \\\n",
         "  found_subs=true; \\\n",
         "  [[ \"$f\" == *\"[...]\"* ]] || [[ \"$f\" == *\"[...]\"* ]] || [[ \"$f\" == *\"[...]\"* ]] && continue; \\\n",
         "  new_name=\"$f\"; \\\n",
         "  if [[ \"$f\" == *\"orig\"* ]]; then label=\"...\"; \\\n",
         "  elif [[ \"$f\" == *\"en-en\"* ]]; then label=\"...\"; \\\n",
         "  elif [[ \"$f\" == *\"-en\"* ]] || [[ \"$f\" == *\"-zh-\"* ]] || [[ \"$f\" == *\".zh-Hans.\"* ]] || [[ \"$f\" == *\".zh-Hant.\"* ]]; then label=\"...\"; \\\n",
         "  else label=\"...\"; fi; \\\n",
         "  new_name=\"${f%.*}.[$label].srt\"; \\\n",
         "  [ \"$f\" != \"$new_name\" ] && [ ! -f \"$new_name\" ] && mv \"$f\" \"$new_name\"; \\\n",
         "  sed -E 's/<[^>]*>//g; /^[0-9][0-9]:[0-9][0-9]:[0-9][0-9]/d; /^[0-9]+$/d; /^WEBVTT/d; /^Kind:/d; /^Language:/d; /^$/d' \"$new_name\" | uniq > \"${new_name%.*}.txt\" ; \\\n",
         "done; \\\n",
         "if [ \"$found_subs\" = \"false\" ]; then \\\n",
         "  echo \"... Whisper ......\" && \\\n",
         "  ",
         Downloader,
         " ">>
      \o <<playlistFlag>>
      \o <<" -x --audio-format wav -o \"">>
      \o <<path>>
      \o <<"/%(title)s/%(title)s.%(ext)s\" \"">>
      \o u
      \o <<"\" && \\\n",
         "  for f in \"">>
      \o <<path>>
      \o <<"/\"*/*.wav ; do \\\n",
         "    [ -f \"$f\" ] || continue; \\\n",
         "    [ \"$f\" -nt \"$TS_FILE\" ] || continue; \\\n",
         "    whisper \"$f\" --model medium --language Chinese --output_dir \"${f%/*}\" --output_format srt && \\\n",
         "    mv \"${f%.*}.srt\" \"${f%.*}.[Whisper].srt\" && \\\n",
         "    sed -E 's/<[^>]*>//g; /^[0-9][0-9]:[0-9][0-9]:[0-9][0-9]/d; /^[0-9]+$/d; /^WEBVTT/d; /^Kind:/d; /^Language:/d; /^$/d' \"${f%.*}.[Whisper].srt\" | uniq > \"${f%.*}.[Whisper].txt\" ; \\\n",
         "  done && \\\n",
         "  echo \"... Whisper ...\"; \\\n",
         "else \\\n",
         "  echo \"...\"; \\\n",
         "fi && rm \"$TS_FILE\"">>

\* case 'transcribe' of generatedCommand; text that is not ASCII (the messages
\* of echo, the label tags) is written ...
TranscribeCommand(u, path, playlistFlag, baseOutput) ==
      <<"TS_FILE=\"/tmp/yt_dlp_ts_$(date +%s)\" && touch \"$TS_FILE\" && \\\n",
         "echo \"... Whisper ......\" && \\\n",
         Downloader,
         " ">>
      \o <<playlistFlag>>
      \o <<" \"">>
      \o u
      \o <<"\" -o \"">>
      \o <<path>>
      \o <<"/%(title)s/%(title)s.%(ext)s\" -x --audio-format mp3 --no-cache-dir && \\\n",
         "for f in \"">>
      \o <<path>>
      \o <<"/\"*/*.mp3 ; do \\\n",
         "  [ -f \"$f\" ] || continue; \\\n",
         "  [ \"$f\" -nt \"$TS_FILE\" ] || continue; \\\n",
         "  whisper \"$f\" --model medium --output_format srt,txt --output_dir \"${f%/*}\" && \\\n",
         "  mv \"${f%.*}.srt\" \"${f%.*}.[Whisper...].srt\" && \\\n",
         "  mv \"${f%.*}.txt\" \"${f%.*}.[Whisper...].txt\"; \\\n",
         "done && \\\n",
         "echo \"... [Whisper...] ...\" && rm \"$TS_FILE\"">>

\* useMemo(() => ..., [url, type, outputPath, isValid, isPlaylist]): the
\* empty sequence is the empty string
generatedCommand(u, t, path, valid, playlist) ==
  IF valid # "true" \/ u = << >> THEN << >>
  ELSE LET baseOutput == <<"-o \"", path, "/%(title)s/%(title)s.%(ext)s\"">>
           playlistFlag == IF playlist THEN "--yes-playlist" ELSE "--no-playlist"
       IN  CASE t = "video" -> VideoCommand(u, path, playlistFlag, baseOutput)
             [] t = "audio" -> AudioCommand(u, path, playlistFlag, baseOutput)
             [] t = "subtitles" -> SubtitlesCommand(u, path, playlistFlag, baseOutput)
             [] t = "transcribe" -> TranscribeCommand(u, path, playlistFlag, baseOutput)
             [] OTHER -> << >>

\* how many entries the history keeps: slice(0, 10)
HistoryCap == 10

\* as AddToHistory, without the filter on the url
AddToHistoryKeepAll(prev, newItem) ==
  SubSeq(<<newItem>> \o prev, 1, Min({Len(prev) + 1, HistoryCap}))

\* [newItem, ...prev.filter(item => item.url !== url)].slice(0, 10)
AddToHistory(prev, newItem) ==
  LET others == SelectSeq(prev, LAMBDA item : item.url # newItem.url)
  IN  SubSeq(<<newItem>> \o others, 1, Min({Len(others) + 1, HistoryCap}))

\* handleCopy: a click on the copy button
handleCopy ==
  LET command == generatedCommand(url, type, outputPath, isValid, isPlaylist)
  IN  /\ command # << >>
      /\ now' = now + 1
      /\ history' = AddToHistory(history,
           [url |-> url, type |-> type, command |-> command,
            timestamp |-> now + 1])
      /\ UNCHANGED <<serverVars, clientVars, apiVars, shVars>>

\* how many log lines the client keeps: slice(-100)
LogCap == 100

\* [...prev, log].slice(-100)
AppendLog(prev, log) ==
  LET all == Append(prev, log)
  IN  IF Len(all) <= LogCap THEN all
      ELSE SubSeq(all, Len(all) - LogCap + 1, Len(all))

\* socketRef.current.emit('start-download', command): sent when the client
\* socket is connected, kept in its send buffer otherwise
EmitStart(command) ==
  /\ emits' = emits + 1
  /\ IF socketRef # 0
     THEN /\ SendStart(socketRef, command)
          /\ UNCHANGED sendBuffer
     ELSE /\ sendBuffer' = Append(sendBuffer, command)
          /\ UNCHANGED serverVars

\* a handleStartDownload that leaves downloadStatus as it is
handleStartDownloadKeepsStatus(command) ==
  IF command = << >>
  THEN UNCHANGED <<serverVars, runVars, sendBuffer, emits>>
  ELSE /\ downloadLogs' = << >>
       /\ downloadProgress' = 0
       /\ isDownloading' = TRUE
       /\ UNCHANGED downloadStatus
       /\ EmitStart(command)

\* handleStartDownload of the render whose generatedCommand is command
handleStartDownload(command) ==
  IF command = << >>
  THEN UNCHANGED <<serverVars, runVars, sendBuffer, emits>>
  ELSE /\ downloadLogs' = << >>
       /\ downloadProgress' = 0
       /\ isDownloading' = TRUE
       /\ downloadStatus' = "running"
       /\ EmitStart(command)

\* the client socket connects: a new socket on the server, 'connect' on
\* the client
ClientConnect ==
  /\ socketRef = 0
  /\ Connect
  /\ socketRef' = Len(sockets) + 1
  /\ received' = 0
  /\ isSocketConnected' = TRUE
  /\ UNCHANGED <<urlVars, runVars, sendBuffer, emits>>

\* the connection is lost: 'disconnect' on both sides
ClientDisconnect ==
  /\ socketRef # 0
  /\ Disconnect(socketRef)
  /\ socketRef' = 0
  /\ isSocketConnected' = FALSE
  /\ UNCHANGED <<urlVars, runVars, received, sendBuffer, emits>>

\* once connected, the client socket sends what its send buffer holds
FlushSendBuffer ==
  /\ socketRef # 0
  /\ sendBuffer # << >>
  /\ SendStart(socketRef, Head(sendBuffer))
  /\ sendBuffer' = Tail(sendBuffer)
  /\ UNCHANGED <<urlVars, runVars, isSocketConnected, socketRef, received, emits>>

\* the user toggles the auto-download switch
ToggleAutoDownload ==
  /\ autoDownload' = ~autoDownload
  /\ UNCHANGED <<serverVars, runVars, linkVars>>
  /\ UNCHANGED <<url, type, outputPath, isValid, isPlaylist, timers, urlEffect>>

\* the validation effect of the render whose url is u: the timer of the
\* auto-download trigger calls the handleStartDownload of that render,
\* whose generatedCommand was computed from the new url and the isValid
\* and isPlaylist of before the effect
Validation(u) ==
  IF u = << >>
  THEN /\ isValid' = "null"
       /\ UNCHANGED <<isPlaylist, timers>>
  ELSE LET valid == youtubeRegex(u) \/ bilibiliRegex(u)
       IN  /\ isValid' = IF valid THEN "true" ELSE "false"
           /\ isPlaylist' = playlistRegex(u)
           /\ timers' =
                IF valid /\ autoDownload /\ isSocketConnected /\ ~isDownloading
                THEN Append(timers,
                       generatedCommand(u, type, outputPath, isValid, isPlaylist))
                ELSE timers

\* setUrl(u) and the validation effect that follows the render, as one
\* step
SetUrl(u) ==
  /\ u # url
  /\ url' = u
  /\ Validation(u)
  /\ UNCHANGED <<serverVars, runVars, linkVars>>
  /\ UNCHANGED <<type, outputPath, autoDownload, urlEffect>>

\* setUrl(u) alone: the component is rendered with the new url and the
\* isValid and isPlaylist it had
setUrl(u) ==
  /\ ~urlEffect
  /\ u # url
  /\ url' = u
  /\ urlEffect' = TRUE
  /\ UNCHANGED <<serverVars, runVars, linkVars>>
  /\ UNCHANGED <<type, outputPath, isValid, isPlaylist, autoDownload, timers>>

\* useEffect(() => ..., [url]) after that render
ValidationEffect ==
  /\ urlEffect
  /\ urlEffect' = FALSE
  /\ Validation(url)
  /\ UNCHANGED <<serverVars, runVars, linkVars>>
  /\ UNCHANGED <<url, type, outputPath, autoDownload>>

\* setType(t): a click on one of the four mode buttons
setType(t) ==
  /\ t # type
  /\ type' = t
  /\ UNCHANGED <<serverVars, runVars, linkVars>>
  /\ UNCHANGED <<url, outputPath, isValid, isPlaylist, autoDownload, timers, urlEffect>>

\* the 800 ms of the oldest timer are over
TimerFires ==
  /\ timers # << >>
  /\ timers' = Tail(timers)
  /\ handleStartDownload(Head(timers))
  /\ UNCHANGED <<url, type, outputPath, isValid, isPlaylist, autoDownload>>
  /\ UNCHANGED <<urlEffect, isSocketConnected, socketRef, received>>

\* a click on the start button, which is rendered when isValid and enabled
\* unless isDownloading || !isSocketConnected
ClickStart ==
  /\ isValid = "true"
  /\ ~(isDownloading \/ ~isSocketConnected)
  /\ handleStartDownload(
       generatedCommand(url, type, outputPath, isValid, isPlaylist))
  /\ UNCHANGED <<urlVars, isSocketConnected, socketRef, received>>

\* a click on the dismiss button, which is rendered in the progress panel
\* when downloadStatus !== 'running'
ClickDismiss ==
  /\ isDownloading \/ downloadStatus # "idle"
  /\ downloadStatus # "running"
  /\ downloadStatus' = "idle"
  /\ UNCHANGED <<serverVars, urlVars, linkVars>>
  /\ UNCHANGED <<isDownloading, downloadProgress, downloadLogs>>

\* the client gets the next event of its socket
Receive ==
  /\ socketRef # 0
  /\ received < Len(emitted[socketRef])
  /\ received' = received + 1
  /\ LET e == emitted[socketRef][received + 1]
     IN  CASE e.event = "download-log" ->
                /\ downloadLogs' = AppendLog(downloadLogs, e.arg)
                /\ UNCHANGED <<isDownloading, downloadProgress, downloadStatus>>
           [] e.event = "download-progress" ->
                /\ downloadProgress' = e.arg
                /\ UNCHANGED <<isDownloading, downloadLogs, downloadStatus>>
           [] e.event = "download-complete" ->
                /\ isDownloading' = FALSE
                /\ downloadStatus' = IF e.arg THEN "success" ELSE "error"
                /\ UNCHANGED <<downloadProgress, downloadLogs>>
  /\ UNCHANGED <<serverVars, urlVars>>
  /\ UNCHANGED <<isSocketConnected, socketRef, sendBuffer, emits>>

(***************************************************************************)
(* The streaming channel with any number of peers: the environment opens   *)
(* sockets, sends commands, and the child processes write and end, within  *)
(* the bounds.                                                             *)
(***************************************************************************)
Next ==
  /\ \/ Len(sockets) < MaxSockets /\ Connect
     \/ \E s \in SocketIds : Disconnect(s)
     \/ \E s \in SocketIds, command \in Commands :
          Len(procs) + Pending < MaxProcs /\ SendStart(s, command)
     \/ \E s \in SocketIds : StartDownload(s)
     \/ \E p \in ProcIds, chunk \in StdoutChunks :
          Written < MaxChunks /\ WriteStdout(p, chunk)
     \/ \E p \in ProcIds, chunk \in StderrChunks :
          Written < MaxChunks /\ WriteStderr(p, chunk)
     \/ \E p \in ProcIds, code \in ExitCodes : Exit(p, code)
     \/ \E p \in ProcIds : StdoutData(p)
     \/ \E p \in ProcIds : StderrData(p)
     \/ \E p \in ProcIds : Close(p)
  /\ UNCHANGED <<clientVars, hostVars>>

Spec == Init /\ [][Next]_vars

(***************************************************************************)
(* The client and the server together: one browser client, the server      *)
(* and the child processes it spawns.                                      *)
(***************************************************************************)
\* start-download messages the client may still emit within the bounds
MayEmit == Len(procs) + Pending + Len(sendBuffer) < MaxProcs

NextUI ==
  \/ Len(sockets) < MaxSockets /\ ClientConnect /\ UNCHANGED hostVars
  \/ ClientDisconnect /\ UNCHANGED hostVars
  \/ FlushSendBuffer /\ UNCHANGED hostVars
  \/ ToggleAutoDownload /\ UNCHANGED hostVars
  \/ \E u \in UrlInputs :
       Len(timers) < MaxTimers /\ SetUrl(u) /\ UNCHANGED hostVars
  \/ /\ timers # << >> /\ (Head(timers) # << >> => MayEmit)
     /\ TimerFires /\ UNCHANGED hostVars
  \/ MayEmit /\ ClickStart /\ UNCHANGED hostVars
  \/ ClickDismiss /\ UNCHANGED hostVars
  \/ Receive /\ UNCHANGED hostVars
  \/ /\ \/ \E s \in SocketIds : StartDownload(s)
        \/ \E p \in ProcIds :
             Written < MaxClientChunks /\ WriteStdout(p, M10)
        \/ \E p \in ProcIds, code \in {"0", "1"} : Exit(p, code)
        \/ \E p \in ProcIds : StdoutData(p)
        \/ \E p \in ProcIds : Close(p)
     /\ UNCHANGED <<clientVars, hostVars>>

SpecUI == Init /\ [][NextUI]_vars

(***************************************************************************)
(* The renders of the App component: every change of the url is followed   *)
(* by a render with the state of before, then by the validation effect and *)
(* the render with what the effect has set.  React runs the pending effect *)
(* before it handles another event.                                        *)
(***************************************************************************)
UrlBili == <<"https://", "www.", "bilibili.com", "/video/", "BV1xx">>
UrlWatchList == <<"youtube.com", "/", "watch?v=abc123", "&list=", "PL1">>
UrlEmptyList == <<"https://", "youtu.be", "/", "abc123", "?list=">>
RenderUrls ==
  {<< >>, UrlWatch, UrlList, UrlOther, UrlBili, UrlWatchList, UrlEmptyList}

\* type DownloadType
Types == {"video", "audio", "subtitles", "transcribe"}

NextRender ==
  \/ \E u \in RenderUrls :
       Len(timers) < MaxTimers /\ setUrl(u) /\ UNCHANGED hostVars
  \/ ValidationEffect /\ UNCHANGED hostVars
  \/ \E t \in Types : ~urlEffect /\ setType(t) /\ UNCHANGED hostVars
  \/ ~urlEffect /\ ToggleAutoDownload /\ UNCHANGED hostVars
  \/ /\ ~urlEffect /\ Len(sockets) < MaxRenderSockets
     /\ ClientConnect /\ UNCHANGED hostVars
  \/ /\ ~urlEffect /\ timers # << >> /\ emits < MaxRenderEmits
     /\ TimerFires /\ UNCHANGED hostVars

SpecRender == Init /\ [][NextRender]_vars

(***************************************************************************)
(* The host: generated commands of the subtitles and transcribe modes are  *)
(* started, in the same second or not, and run side by side.               *)
(***************************************************************************)
NextShell ==
  \/ \E mode \in {"subtitles", "transcribe"}, sec \in Seconds :
       Len(runs) < MaxRuns /\ ShStart(mode, sec)
  \/ \E r \in RunIds : ShTouch(r)
  \/ \E r \in RunIds, status \in Statuses, writes \in BOOLEAN :
       ShPrimary(r, status, writes)
  \/ \E r \in RunIds : ShLoop(r)
  \/ \E r \in RunIds : ShIf(r)
  \/ \E r \in RunIds, status, whisper, mv, sed \in Statuses :
       ShFallback(r, status, whisper, mv, sed)
  \/ \E r \in RunIds, status, whisper, mv1, mv2 \in Statuses :
       ShTranscribe(r, status, whisper, mv1, mv2)
  \/ \E r \in RunIds : ShRm(r)

SpecShell == Init /\ [][NextShell]_vars

(***************************************************************************)
(* The history alone: the user enters one video url after the other, or    *)
(* a url of the history again, and copies the command.                     *)
(***************************************************************************)
\* the url of the k-th video
UrlVideo(k) == <<"https://", "youtu.be", "/", ToString(k)>>

\* the urls of the entries of h
UrlsOf(h) == {h[i].url : i \in 1..Len(h)}

\* how many of the videos have been copied: the videos are entered in
\* order, and the last of them is in the history
Entered ==
  LET ks == {k \in 1..MaxVideos : UrlVideo(k) \in UrlsOf(history)}
  IN  IF ks = {} THEN 0 ELSE CHOOSE k \in ks : \A j \in ks : j <= k

\* how many times a url of the history has been copied again
Recopied == now - Entered

NextHistory ==
  \/ /\ Entered < MaxVideos
     /\ SetUrl(UrlVideo(Entered + 1)) /\ UNCHANGED hostVars
  \/ \E i \in 1..Len(history) :
       /\ Recopied < MaxRecopies
       /\ SetUrl(history[i].url) /\ UNCHANGED hostVars
  \/ /\ url \in UrlsOf(history) => Recopied < MaxRecopies
     /\ handleCopy

SpecHistory == Init /\ [][NextHistory]_vars

(***************************************************************************)
(* One client whose runs follow one another and write many lines: a line   *)
(* is written when the lines before it have reached the client.            *)
(***************************************************************************)
\* every event emitted has been received, every chunk written has been read
Drained ==
  /\ \A p \in ProcIds : procs[p].stdoutRead = Len(procs[p].stdout)
  /\ socketRef # 0 => received = Len(emitted[socketRef])

NextLog ==
  \/ Len(sockets) < MaxLogSockets /\ ClientConnect /\ UNCHANGED hostVars
  \/ url = << >> /\ SetUrl(UrlWatch) /\ UNCHANGED hostVars
  \/ Len(procs) + Pending < MaxLogRuns /\ ClickStart /\ UNCHANGED hostVars
  \/ Receive /\ UNCHANGED hostVars
  \/ /\ \/ \E s \in SocketIds : StartDownload(s)
        \/ \E p \in ProcIds :
             Written < MaxLogLines /\ Drained /\ WriteStdout(p, NoNumbers)
        \/ \E p \in ProcIds : Drained /\ Exit(p, "0")
        \/ \E p \in ProcIds : StdoutData(p)
        \/ \E p \in ProcIds : Close(p)
     /\ UNCHANGED <<clientVars, hostVars>>

SpecLog == Init /\ [][NextLog]_vars

(***************************************************************************)
(* The HTTP download endpoint alone, in any environment: requests to the   *)
(* router of api.ts and to the single-file server of server.ts.            *)
(***************************************************************************)
InitDownload ==
  /\ InitServer
  /\ InitClient
  /\ InitHost
  /\ VERCEL \in EnvValues
  /\ NODE_ENV = Undefined
  /\ listening = TRUE
  /\ responses = << >>
  /\ apiProcs = << >>
  /\ InitFn

NextDownload ==
  \/ \E body \in Bodies :
       Len(responses) < MaxRequests /\ routerDownload(body)
  \/ \E body \in Bodies :
       Len(responses) < MaxRequests /\ serverDownload(body)
  \/ \E p \in 1..Len(apiProcs), code \in ExitCodes : ApiClose(p, code)

SpecDownload == InitDownload /\ [][NextDownload]_vars

(***************************************************************************)
(* The server of createServerApp from the start of its module, in any      *)
(* environment: the module calls listen or not, peers connect to a         *)
(* listening server, and POST /api/download reaches the router through the *)
(* listening server or through the handler of api/index.ts.                *)
(***************************************************************************)
\* values of process.env.NODE_ENV
NodeEnvs == {Undefined, "development", "production"}

\* if (NODE_ENV !== "production" || !VERCEL) createServerApp().then(listen)
Listen ==
  /\ ~listening
  /\ NODE_ENV # "production" \/ Falsy(VERCEL)
  /\ listening' = TRUE
  /\ UNCHANGED <<serverVars, clientVars, VERCEL, NODE_ENV, responses, apiProcs>>
  /\ UNCHANGED <<fnVars, shVars, historyVars>>

InitGate ==
  /\ InitServer
  /\ InitClient
  /\ InitHost
  /\ VERCEL \in EnvValues
  /\ NODE_ENV \in NodeEnvs
  /\ listening = FALSE
  /\ responses = << >>
  /\ apiProcs = << >>
  /\ InitFn

NextGate ==
  \/ Listen
  \/ /\ \/ Len(sockets) < MaxGateSockets /\ Connect
        \/ \E s \in SocketIds : Disconnect(s)
        \/ \E s \in SocketIds :
             Len(procs) + Pending < MaxGateProcs /\ SendStart(s, CmdDownload)
        \/ \E s \in SocketIds : StartDownload(s)
        \/ \E p \in ProcIds, code \in ExitCodes : Exit(p, code)
        \/ \E p \in ProcIds : Close(p)
     /\ UNCHANGED <<clientVars, hostVars>>
  \/ \E body \in Bodies :
       Len(responses) < MaxGateRequests /\ routerDownload(body)
  \/ \E p \in 1..Len(apiProcs), code \in ExitCodes : ApiClose(p, code)

SpecGate == InitGate /\ [][NextGate]_vars

(***************************************************************************)
(* The command rewriting alone: one socket on which one start-download     *)
(* message, with any command of CmdInputs, waits to be handled.            *)
(***************************************************************************)
InitCmd ==
  /\ sockets = <<[connected |-> TRUE]>>
  /\ \E command \in CmdInputs :
       /\ inbox = <<(<<command>>)>>
       /\ sent = <<(<<command>>)>>
  /\ procs = << >>
  /\ emitted = <<(<< >>)>>
  /\ InitClient
  /\ InitApi
  /\ InitHost

NextCmd == StartDownload(1) /\ UNCHANGED <<clientVars, hostVars>>

SpecCmd == InitCmd /\ [][NextCmd]_vars

(***************************************************************************)
(* The validation of the url alone: the component just rendered after     *)
(* setUrl(u), for any u of ClassifyInputs, and the validation effect       *)
(* that follows.                                                           *)
(***************************************************************************)
\* fragments of the text typed in the url field
UrlFragments ==
  {"https://", "http://", "www.", "youtube.com", "youtu.be", "bilibili.com",
   "/", "/video/", "x", "\n"}

ClassifyInputs == SeqsUpTo(UrlFragments, MaxUrlLen) \ {<< >>}

InitClassify ==
  /\ InitServer
  /\ InitApi
  /\ InitHost
  /\ url \in ClassifyInputs
  /\ urlEffect = TRUE
  /\ type = "subtitles"
  /\ outputPath = "/Users/yuliu/Movies/YouTube DL"
  /\ isValid = "null"
  /\ isPlaylist = FALSE
  /\ isDownloading = FALSE
  /\ downloadProgress = 0
  /\ downloadLogs = << >>
  /\ downloadStatus = "idle"
  /\ isSocketConnected = FALSE
  /\ autoDownload = FALSE
  /\ timers = << >>
  /\ history = << >>
  /\ now = 0
  /\ socketRef = 0
  /\ received = 0
  /\ sendBuffer = << >>
  /\ emits = 0

NextClassify == ValidationEffect /\ UNCHANGED hostVars

SpecClassify == InitClassify /\ [][NextClassify]_vars

(***************************************************************************)
(* The serverless entry point: the module of the server is loaded in any   *)
(* environment, and requests call the handler of api/index.ts.             *)
(***************************************************************************)
\* handler(req, res) up to its first suspension.  createServerApp runs up
\* to `await import("vite")` when NODE_ENV is not "production"; in
\* production it has no await of its own, so that the promise the handler
\* awaits is resolved already and the handler goes on before another
\* request is taken up.
handler ==
  IF initialized
  THEN /\ calls' = Append(calls, [pc |-> "app", init |-> 0])
       /\ UNCHANGED <<initialized, inits>>
  ELSE IF NODE_ENV = "production"
  THEN /\ inits' = Append(inits, [done |-> TRUE])
       /\ initialized' = TRUE
       /\ calls' = Append(calls, [pc |-> "app", init |-> Len(inits) + 1])
  ELSE /\ inits' = Append(inits, [done |-> FALSE])
       /\ calls' = Append(calls, [pc |-> "await", init |-> Len(inits) + 1])
       /\ UNCHANGED initialized

HandlerCall ==
  /\ handler
  /\ UNCHANGED <<serverVars, clientVars, VERCEL, NODE_ENV, listening>>
  /\ UNCHANGED <<responses, apiProcs, shVars, historyVars>>

\* the vite server of call k of createServerApp is there: the call
\* returns, and the handler that awaits it sets initialized and calls
\* app(req, res)
ViteReady(k) ==
  /\ ~inits[k].done
  /\ inits' = [inits EXCEPT ![k].done = TRUE]
  /\ initialized' = TRUE
  /\ calls' = [c \in 1..Len(calls) |->
                 IF calls[c].init = k THEN [calls[c] EXCEPT !.pc = "app"]
                 ELSE calls[c]]
  /\ UNCHANGED <<serverVars, clientVars, VERCEL, NODE_ENV, listening>>
  /\ UNCHANGED <<responses, apiProcs, shVars, historyVars>>

NextHandler ==
  \/ Listen
  \/ Len(calls) < MaxCalls /\ HandlerCall
  \/ \E k \in 1..Len(inits) : ViteReady(k)

SpecHandler == InitGate /\ [][NextHandler]_vars

(***************************************************************************)
(* The pipe between a child process and the server: the process prints    *)
(* two progress lines, and the reads of the server cut that stream at any  *)
(* MaxCuts places or fewer; the stdout handler runs once per read.         *)
(***************************************************************************)
\* what the child process prints
Stream == M10 \o M55

\* the ways of cutting text in at most n places: sequences of chunks that
\* are not empty
RECURSIVE CutsOf(_, _)
CutsOf(text, n) ==
  IF n = 0 \/ Len(text) < 2 THEN {<<text>>}
  ELSE {<<text>>} \cup
       UNION { {<<SubSeq(text, 1, k)>> \o rest :
                  rest \in CutsOf(SubSeq(text, k + 1, Len(text)), n - 1)}
               : k \in 1..(Len(text) - 1) }

InitPipe ==
  /\ sockets = <<[connected |-> TRUE]>>
  /\ inbox = <<(<< >>)>>
  /\ sent = <<(<<CmdDownload>>)>>
  /\ \E chunks \in CutsOf(Stream, MaxCuts) :
       procs = <<[Spawned(1, CmdDownload) EXCEPT !.stdout = chunks]>>
  /\ emitted = <<(<< >>)>>
  /\ InitClient
  /\ InitApi
  /\ InitHost

NextPipe == StdoutData(1) /\ UNCHANGED <<clientVars, hostVars>>

SpecPipe == InitPipe /\ [][NextPipe]_vars

(***************************************************************************)
(* The progress extraction alone: one running process that has written    *)
(* one chunk, any of ExtractInputs, on its standard output.                *)
(***************************************************************************)
InitExtract ==
  /\ sockets = <<[connected |-> TRUE]>>
  /\ inbox = <<(<< >>)>>
  /\ sent = <<(<<CmdDownload>>)>>
  /\ \E chunk \in ExtractInputs :
       procs = <<[Spawned(1, CmdDownload) EXCEPT !.stdout = <<chunk>>]>>
  /\ emitted = <<(<< >>)>>
  /\ InitClient
  /\ InitApi
  /\ InitHost

NextExtract == StdoutData(1) /\ UNCHANGED <<clientVars, hostVars>>

SpecExtract == InitExtract /\ [][NextExtract]_vars

(***************************************************************************)
(* Properties of the streaming channel.                                    *)
(***************************************************************************)
\* the events process p emitted on socket s, in order
EventsOn(s, p) ==
  LET FromP(e) == e.proc = p
  IN  SelectSeq(emitted[s], FromP)

\* the events of the given name among es, in order
Named(es, name) ==
  LET IsNamed(e) == e.event = name
  IN  SelectSeq(es, IsNamed)

\* C1: on every socket, no event of a process follows the download-complete
\* event of that process: download-complete is the last event of its run.
C1_CompleteIsLast ==
  \A s \in SocketIds : \A i, j \in 1..Len(emitted[s]) :
    (i < j /\ emitted[s][i].event = "download-complete")
      => emitted[s][j].proc # emitted[s][i].proc

\* a run that emitted a log before its download-complete, on a socket that
\* went on emitting for another run afterwards
C1_Witness ==
  \E s \in SocketIds : \E i, j, k \in 1..Len(emitted[s]) :
    /\ i < j /\ j < k
    /\ emitted[s][i].event = "download-log"
    /\ emitted[s][j].event = "download-complete"
    /\ emitted[s][i].proc = emitted[s][j].proc
    /\ emitted[s][k].proc # emitted[s][j].proc

\* C2: every process has emitted download-complete exactly once when its
\* "close" event has been handled and never before, on the socket that
\* started it and on no other, with true exactly for exit code 0.
C2_ExactlyOneComplete ==
  \A p \in ProcIds : \A s \in SocketIds :
    LET done == Named(EventsOn(s, p), "download-complete")
    IN  /\ Len(done) = IF procs[p].closed /\ s = procs[p].socket THEN 1 ELSE 0
        /\ \A i \in 1..Len(done) :
             /\ procs[p].exitCode = "0" => done[i].arg = TRUE
             /\ procs[p].exitCode \in {"1", "null"} => done[i].arg = FALSE

\* two processes of one socket that ran at the same time (the second one
\* logged before the first one completed), one ended by a signal
C2_Witness ==
  \E p, q \in ProcIds : \E i, j \in 1..Len(emitted[procs[p].socket]) :
    LET es == emitted[procs[p].socket]
    IN  /\ p < q /\ procs[q].socket = procs[p].socket
        /\ procs[p].closed /\ procs[q].closed
        /\ procs[p].exitCode = "null" /\ procs[q].exitCode = "0"
        /\ i < j
        /\ es[i].proc = q /\ es[i].event = "download-log"
        /\ es[j].proc = p /\ es[j].event = "download-complete"

\* C3: every event emitted on a socket comes from a process that a
\* start-download received on that very socket has spawned.
C3_OwnSocketOnly ==
  \A s \in SocketIds : \A i \in 1..Len(emitted[s]) :
    /\ emitted[s][i].proc \in ProcIds
    /\ procs[emitted[s][i].proc].socket = s

\* a process of a socket that is gone has emitted all its events, while a
\* newer socket is connected and has its own run
C3_Witness ==
  \E p, q \in ProcIds :
    /\ procs[p].socket = 1 /\ ~sockets[1].connected
    /\ procs[p].stdoutRead > 0 /\ procs[p].closed
    /\ Len(sockets) > 1 /\ sockets[2].connected
    /\ procs[q].socket = 2 /\ procs[q].closed
    /\ Len(emitted[1]) > 2 /\ Len(emitted[2]) > 0

(***************************************************************************)
(* The progress extractor as the specification states it: the value of    *)
(* the first  [progress] <float>%  marker of a chunk, else the value of    *)
(* the first bare  <float>%,  else nothing.                                *)
(***************************************************************************)
\* t is the text of a float: digits, or digits "." digits
IsFloatText(t) ==
  /\ Len(t) > 0
  /\ t[1] \in Digit /\ t[Len(t)] \in Digit
  /\ \A k \in 1..Len(t) : t[k] \in Digit \cup {"."}
  /\ Cardinality({k \in 1..Len(t) : t[k] = "."}) <= 1

\* the value of the text of a float, digit by digit, in units of
\* 10^-FracDigits
FloatValue(t) ==
  LET dots == {k \in 1..Len(t) : t[k] = "."}
      dot  == IF dots = {} THEN Len(t) + 1 ELSE CHOOSE k \in dots : TRUE
      RECURSIVE Sum(_)
      Sum(k) ==
        IF k = 0 THEN 0
        ELSE Sum(k - 1) +
             ( IF k < dot THEN DigitValue(t[k]) * Pow10(dot - 1 - k) * Scale
               ELSE IF k > dot /\ k - dot <= FracDigits
                    THEN DigitValue(t[k]) * Pow10(FracDigits - (k - dot))
                    ELSE 0 )
  IN  Sum(Len(t))

\* the occurrences <<i, j>> of a bare <float>% in s: the float is s[i..j].
\* An occurrence <<i, <<a, b>>>> of a marker is the literal at i, white
\* space up to a, and the bare occurrence <<a, b>>.
BareAt(s) ==
  LET ends == {j \in 1..(Len(s) - 1) : s[j + 1] = "%" /\ s[j] \in Digit}
  IN  UNION { { <<i, j>> : i \in {i \in 1..j :
                                   /\ s[i] \in Digit
                                   /\ IsFloatText(SubSeq(s, i, j))} }
              : j \in ends }

\* the leftmost of a set of occurrences
Leftmost(occurrences) ==
  CHOOSE m \in occurrences : \A o \in occurrences : m[1] <= o[1]

\* extractProgress(chunk): << >> for null, else <<value>>
ExtractProgress(chunk) ==
  LET bare == BareAt(chunk)
      lits == {i \in 1..Len(chunk) : chunk[i] = ProgressLit[1]}
      markers == {iab \in lits \X bare :
                    LET i == iab[1]
                        a == iab[2][1]
                        n == Len(ProgressLit)
                    IN  /\ i + n < a
                        /\ SubSeq(chunk, i, i + n - 1) = ProgressLit
                        /\ \A k \in (i + n)..(a - 1) : chunk[k] \in Space}
  IN  IF markers # {}
      THEN LET first == Leftmost(markers)
           IN  <<FloatValue(SubSeq(chunk, first[2][1], first[2][2]))>>
      ELSE IF bare # {}
      THEN LET first == Leftmost(bare)
           IN  <<FloatValue(SubSeq(chunk, first[1], first[2]))>>
      ELSE << >>

\* what forwarding the chunks of one stream, in order, emits when every
\* chunk gives a log and, if the extractor finds a value, a progress
RECURSIVE ForwardedWithProgress(_, _)
ForwardedWithProgress(chunks, prefix) ==
  IF chunks = << >> THEN << >>
  ELSE LET c == Head(chunks)
       IN  <<[event |-> "download-log", arg |-> prefix \o c]>>
           \o ( IF ExtractProgress(c) = << >> THEN << >>
                ELSE <<[event |-> "download-progress",
                        arg |-> ExtractProgress(c)[1]]>> )
           \o ForwardedWithProgress(Tail(chunks), prefix)

\* what forwarding the chunks of one stream emits when every chunk gives a
\* log and nothing else
ForwardedLogOnly(chunks, prefix) ==
  [k \in 1..Len(chunks) |->
     [event |-> "download-log", arg |-> prefix \o chunks[k]]]

SameEvent(e, f) == e.event = f.event /\ e.arg = f.arg

\* es is an interleaving of as and bs that keeps the order of each
RECURSIVE IsShuffle(_, _, _)
IsShuffle(as, bs, es) ==
  IF es = << >> THEN as = << >> /\ bs = << >>
  ELSE \/ /\ as # << >>
          /\ SameEvent(Head(as), Head(es))
          /\ IsShuffle(Tail(as), bs, Tail(es))
       \/ /\ bs # << >>
          /\ SameEvent(Head(bs), Head(es))
          /\ IsShuffle(as, Tail(bs), Tail(es))

\* the events process p emitted on its socket before download-complete
RunEvents(p) ==
  LET NotComplete(e) == e.event # "download-complete"
  IN  SelectSeq(EventsOn(procs[p].socket, p), NotComplete)

\* the chunks of process p its data handlers have been called with
StdoutHandled(p) == SubSeq(procs[p].stdout, 1, procs[p].stdoutRead)
StderrHandled(p) == SubSeq(procs[p].stderr, 1, procs[p].stderrRead)

\* C4 as claimed: every chunk handled, of standard output and of standard
\* error alike, has given a download-log and, when the extractor finds a
\* value in it, a download-progress.
C4_Original ==
  \A p \in ProcIds :
    IsShuffle(ForwardedWithProgress(StdoutHandled(p), << >>),
              ForwardedWithProgress(StderrHandled(p), ErrorPrefix),
              RunEvents(p))

\* C4 as amended: every chunk handled has given a download-log (a chunk of
\* standard error behind the prefix "ERROR: "); only the chunks of standard
\* output go through the extractor and give a download-progress when it
\* finds a value; a chunk of standard error gives no download-progress.
C4_Forwarding ==
  \A p \in ProcIds :
    IsShuffle(ForwardedWithProgress(StdoutHandled(p), << >>),
              ForwardedLogOnly(StderrHandled(p), ErrorPrefix),
              RunEvents(p))

\* a process whose handlers got a marker on standard output and a marker on
\* standard error
C4_Witness ==
  \E p \in ProcIds :
    /\ procs[p].stdoutRead > 0 /\ procs[p].stderrRead > 0
    /\ ExtractProgress(procs[p].stdout[1]) # << >>
    /\ ExtractProgress(procs[p].stderr[1]) # << >>
    /\ Len(RunEvents(p)) = 3

\* the progress lines a downloader prints, with the value each announces
Markers ==
  { [text |-> M10, value |-> 10 * Scale],
    [text |-> M55, value |-> 55 * Scale] }

MarkerText(ms) == Concat([k \in 1..Len(ms) |-> ms[k].text])

\* C5 as claimed: a process whose command names the downloader, that has
\* printed a sequence of markers on its standard output and nothing else,
\* and has ended with code 0, has emitted one download-progress per marker,
\* in order and with the value of the marker, and then
\* download-complete(true), however its output was cut into chunks.
C5_EveryMarkerInOrder ==
  \A p \in ProcIds :
    \A ms \in SeqsUpTo(Markers, MaxChunks + 1) :
      ( /\ Includes(procs[p].command)
        /\ procs[p].closed /\ procs[p].exitCode = "0"
        /\ procs[p].stderr = << >>
        /\ Concat(procs[p].stdout) = MarkerText(ms) )
      => LET es == EventsOn(procs[p].socket, p)
             progress == Named(es, "download-progress")
         IN  /\ Len(progress) = Len(ms)
             /\ \A k \in 1..Len(ms) : progress[k].arg = ms[k].value
             /\ es[Len(es)].event = "download-complete"
             /\ es[Len(es)].arg = TRUE

(***************************************************************************)
(* Properties of the progress extraction (SpecExtract).                    *)
(***************************************************************************)
\* C6: the chunk the stdout handler was called with has given exactly the
\* download-progress the extractor states: the value of its first marker,
\* else of its first bare percentage, and no download-progress at all when
\* it holds neither.
C6_ExtractOneChunk ==
  \A p \in ProcIds :
    procs[p].stdoutRead = 1 =>
      LET progress == Named(EventsOn(procs[p].socket, p), "download-progress")
          expected == ExtractProgress(procs[p].stdout[1])
      IN  /\ Len(progress) = Len(expected)
          /\ \A k \in 1..Len(expected) : progress[k].arg = expected[k]

\* a chunk with a bare percentage before a marker has given the value of
\* the marker
C6_Witness ==
  \E p \in ProcIds :
    /\ procs[p].stdoutRead = 1
    /\ procs[p].stdout[1] = <<"4", "%">> \o M7
    /\ Len(emitted[procs[p].socket]) = 2
    /\ emitted[procs[p].socket][2].event = "download-progress"
    /\ emitted[procs[p].socket][2].arg = 7 * Scale

(***************************************************************************)
(* Properties of the command rewriting (SpecCmd).                          *)
(***************************************************************************)
\* the commands of the processes socket s has spawned, in spawn order
SpawnedBy(s) ==
  LET OfS(proc) == proc.socket = s
      ps == SelectSeq(procs, OfS)
  IN  [k \in 1..Len(ps) |-> ps[k].command]

\* C7: what is handed to the shell is the command with the progress flags
\* put behind an occurrence of the downloader name when the command holds
\* that name, and the command itself otherwise; the command the handler
\* holds is still the one the peer sent.
C7_CommandAugmented ==
  /\ \A p \in ProcIds :
       LET command == procs[p].command
           shell == procs[p].spawned
       IN  /\ shell[1] = "bash" /\ shell[2] = "-c" /\ Len(shell) = 3
           /\ IF \E i \in 1..Len(command) : command[i] = Downloader
              THEN \E i \in 1..Len(command) :
                     /\ command[i] = Downloader
                     /\ shell[3] = SubSeq(command, 1, i) \o <<ProgressFlags>>
                                     \o SubSeq(command, i + 1, Len(command))
              ELSE shell[3] = command
  /\ \A s \in SocketIds : SpawnedBy(s) \o inbox[s] = sent[s]

\* a command with two downloader invocations has been spawned, and a
\* command without any
C7_Witness ==
  \E p \in ProcIds :
    /\ procs[p].command = <<Downloader, " && ", Downloader>>
    /\ procs[p].spawned[3] = <<Downloader, ProgressFlags, " && ", Downloader>>
    /\ sent[1] = <<procs[p].command>>

\* C8: downloadStatus changes only from idle, success or error to running,
\* from running to success or to error, and from success or error to idle;
\* never from running to idle, from idle to success or error, or between
\* success and error.
C8_StatusMachine ==
  [][ \/ downloadStatus' = downloadStatus
      \/ downloadStatus \in {"idle", "success", "error"}
           /\ downloadStatus' = "running"
      \/ downloadStatus = "running"
           /\ downloadStatus' \in {"success", "error"}
      \/ downloadStatus \in {"success", "error"}
           /\ downloadStatus' = "idle" ]_vars

\* C9: the client never emits start-download while isDownloading is true.
C9_OneJobAtATime ==
  [][ emits' > emits => ~isDownloading ]_vars

\* the responses that answered 200, in order
Started == SelectSeq(responses, LAMBDA r : r.status = 200)

\* C10: POST /api/download answers 400 with an error and spawns nothing
\* when url is missing, answers 403 with an error and spawns nothing when
\* the environment forbids spawning (VERCEL is set), and otherwise spawns
\* the command and answers 200 {status: "started", command, message} while
\* the process runs, whatever its exit code turns out to be.
C10_DownloadContract ==
  /\ \A i \in 1..Len(responses) :
       LET r == responses[i]
       IN  CASE Falsy(r.body.url) ->
                  r.status = 400 /\ DOMAIN r.json = {"error"}
             [] ~Falsy(r.body.url) /\ ~Falsy(VERCEL) ->
                  r.status = 403 /\ DOMAIN r.json = {"error"}
             [] OTHER ->
                  /\ r.status = 200
                  /\ DOMAIN r.json = {"status", "command", "message"}
                  /\ r.json.status = "started"
  /\ Len(apiProcs) = Len(Started)
  /\ \A k \in 1..Len(Started) :
       k <= Len(apiProcs) =>
         apiProcs[k].spawned = <<"bash", "-c", Started[k].json.command>>

\* C10 for the router of api.ts alone
C10_RouterContract ==
  /\ \A i \in 1..Len(responses) :
       LET r == responses[i]
       IN  r.app = "router" =>
             CASE Falsy(r.body.url) ->
                    r.status = 400 /\ DOMAIN r.json = {"error"}
               [] ~Falsy(r.body.url) /\ ~Falsy(VERCEL) ->
                    r.status = 403 /\ DOMAIN r.json = {"error"}
               [] OTHER ->
                    /\ r.status = 200
                    /\ DOMAIN r.json = {"status", "command", "message"}
                    /\ r.json.status = "started"
  /\ Len(apiProcs) = Len(Started)
  /\ \A k \in 1..Len(Started) :
       k <= Len(apiProcs) =>
         apiProcs[k].spawned = <<"bash", "-c", Started[k].json.command>>

(***************************************************************************)
(* Properties of the environment gating (SpecGate).                        *)
(***************************************************************************)
\* C11: when VERCEL is set, the server never spawns a child process,
\* neither through POST /api/download nor through a start-download event,
\* whatever NODE_ENV is.
C11_NoSpawnOnVercel ==
  ~Falsy(VERCEL) => procs = << >> /\ apiProcs = << >>

\* C11 restricted to NODE_ENV = "production", where the module does not
\* call listen
C11_NoSpawnInProduction ==
  ~Falsy(VERCEL) /\ NODE_ENV = "production" =>
    /\ ~listening
    /\ procs = << >> /\ apiProcs = << >>

(***************************************************************************)
(* Properties of the generated command (SpecRender).                       *)
(***************************************************************************)
\* the generatedCommand of the current render
Rendered == generatedCommand(url, type, outputPath, isValid, isPlaylist)

\* C12: in every render, that which follows a change of the url and
\* precedes the validation effect included, the generated command is empty
\* unless the url is not empty and matches the YouTube or the Bilibili
\* pattern.
C12_CommandOnlyForSupportedUrl ==
  Rendered # << >> =>
    url # << >> /\ (youtubeRegex(url) \/ bilibiliRegex(url))

\* C12 for the renders that follow the validation effect
C12_SettledRenders ==
  ~urlEffect => C12_CommandOnlyForSupportedUrl

\* the playlist flags of command, in order
PlaylistFlags(command) ==
  SelectSeq(command, LAMBDA x : x \in {"--yes-playlist", "--no-playlist"})

\* C13: every generated command that is not empty carries one playlist
\* flag in each of its downloader invocations, and all of them are
\* --yes-playlist when the url holds list=<nonempty> in its query string
\* and --no-playlist otherwise.
C13_PlaylistFlag ==
  Rendered # << >> =>
    LET flags == PlaylistFlags(Rendered)
        invocations == SelectSeq(Rendered, LAMBDA x : x = Downloader)
        flag == IF playlistRegex(url) THEN "--yes-playlist" ELSE "--no-playlist"
    IN  /\ Len(flags) = Len(invocations)
        /\ Len(flags) >= 1
        /\ \A i \in 1..Len(flags) : flags[i] = flag
        /\ \A i \in 1..Len(Rendered) :
             Rendered[i] = Downloader =>
               i + 2 <= Len(Rendered) /\ Rendered[i + 2] = flag

\* C13 for the renders that follow the validation effect
C13_SettledRenders ==
  ~urlEffect => C13_PlaylistFlag

(***************************************************************************)
(* Properties of the compound commands on the host (SpecShell).            *)
(***************************************************************************)
\* C14: every execution of the subtitles or the transcribe command that
\* has created the sentinel has removed it when the command ends, whatever
\* the statuses of its yt-dlp, whisper, mv and sed steps.
C14_SentinelRemoved ==
  \A r \in RunIds :
    runs[r].pc = "end" /\ runs[r].touched # 0 => runs[r].removed

\* C15: in subtitles mode the fallback is executed if and only if the
\* primary step has written no subtitle file for this run, whatever the
\* exit status of the primary yt-dlp.
C15_FallbackIffNoSubtitle ==
  \A r \in RunIds :
    runs[r].mode = "subtitles" /\ runs[r].pc \in {"fallback", "rm", "end"} =>
      (runs[r].fallback <=> ~runs[r].produced)

\* C16: a run renames and rewrites only files written after it created its
\* own sentinel, never a subtitle file that was there before it started,
\* also when another run uses the same sentinel path.
C16_OnlyOwnOutputs ==
  \A r \in RunIds :
    \A f \in runs[r].processed :
      /\ f # 0
      /\ files[f].mtime > runs[r].touched

(***************************************************************************)
(* Properties of the history (SpecHistory).                                *)
(***************************************************************************)
\* what a copy of the command of the current url must make of history h
CopyResult(h, hNew) ==
  LET urls == UrlsOf(h)
      kept == IF url \in urls \/ Len(h) < 10 THEN urls
              ELSE urls \ {h[Len(h)].url}
  IN  /\ hNew # << >>
      /\ hNew[1].url = url
      /\ hNew[1].timestamp = now'
      /\ UrlsOf(hNew) = kept \cup {url}
      /\ \A k \in 2..Len(hNew) : \E i \in 1..Len(h) : h[i] = hNew[k]

\* C17: the history never holds more than 10 entries, is ordered from the
\* most recent copy to the oldest, and holds no url twice; a copy puts the
\* entry of the current url in front, instead of the entry the url had,
\* and drops the oldest entry when an 11th url comes in.
C17_HistoryCapped ==
  /\ [](/\ Len(history) <= 10
        /\ \A i, j \in 1..Len(history) :
             i < j => /\ history[i].url # history[j].url
                      /\ history[i].timestamp > history[j].timestamp)
  /\ [][history' # history => CopyResult(history, history')]_vars

\* an 11th and a 12th url have been copied, and a url of the history has
\* been copied again
C17_Witness ==
  /\ Len(history) = 10
  /\ Entered = 12
  /\ Recopied = 1
  /\ history[1].url # UrlVideo(12)

(***************************************************************************)
(* Properties of the displayed log and progress.                           *)
(***************************************************************************)
\* the last n entries of a sequence, all of them when it has fewer
LastOf(q, n) ==
  IF Len(q) <= n THEN q ELSE SubSeq(q, Len(q) - n + 1, Len(q))

\* the texts of the download-log events of process p among the first n
\* events of socket s, in the order of their emission
LogsOf(s, n, p) ==
  LET got == SubSeq(emitted[s], 1, n)
      logs == SelectSeq(got,
                LAMBDA e : e.event = "download-log" /\ e.proc = p)
  IN  [k \in 1..Len(logs) |-> logs[k].arg]

\* C18: the displayed log never holds more than 100 entries, and it holds
\* the most recent min(n, 100) of the n log entries that the client has
\* got of its current run, the one of its last start-download, in the
\* order of their arrival (stated for a client on its first connection).
C18_LogOfCurrentRun ==
  /\ Len(downloadLogs) <= 100
  /\ socketRef = 1 /\ sendBuffer = << >> =>
       downloadLogs = LastOf(LogsOf(1, received, emits), 100)

\* C19: every download-progress event the server emits carries a value
\* between 0 and 100, whatever the child process writes.
C19_ProgressInRange ==
  \A s \in SocketIds :
    \A i \in 1..Len(emitted[s]) :
      emitted[s][i].event = "download-progress" =>
        /\ emitted[s][i].arg >= 0
        /\ emitted[s][i].arg <= 100 * Scale

\* C20: no client action ends a run early: a step in which a peer connects,
\* disconnects or sends start-download, or in which the server handles a
\* start-download, leaves every process already spawned as it was.
C20_NoClientStop ==
  [][ (sockets' # sockets \/ inbox' # inbox \/ sent' # sent) =>
        /\ Len(procs') >= Len(procs)
        /\ \A p \in ProcIds : procs'[p] = procs[p] ]_vars

\* a process still running after a further start-download was handled on
\* its connection and the connection ended
C20_Witness ==
  \E p \in ProcIds, q \in ProcIds :
    /\ p < q
    /\ procs[p].socket = procs[q].socket
    /\ ~sockets[procs[p].socket].connected
    /\ procs[p].exitCode = "running"
    /\ procs[p].stdout # << >>

\* the text of a url in pieces no classification cuts: "/video/" is a slash
\* and the segment "video/"
RECURSIVE Pieces(_)
Pieces(u) ==
  IF u = << >> THEN << >>
  ELSE (IF Head(u) = "/video/" THEN <<"/", "video/">> ELSE <<Head(u)>>)
         \o Pieces(Tail(u))

\* a non-empty path: characters of a url, so no line break
IsPath(p) == p # << >> /\ \A j \in 1..Len(p) : p[j] # "\n"

\* [http(s)://][www.]youtube.com/<path>, [http(s)://][www.]youtu.be/<path>
\* or [http(s)://][www.]bilibili.com/video/<path>
SupportedForm(u) ==
  \E scheme \in {<< >>, <<"http://">>, <<"https://">>},
     www \in {<< >>, <<"www.">>},
     site \in {<<"youtube.com", "/">>, <<"youtu.be", "/">>,
               <<"bilibili.com", "/", "video/">>} :
    LET front == scheme \o www \o site
        text == Pieces(u)
    IN  /\ Len(text) > Len(front)
        /\ SubSeq(text, 1, Len(front)) = front
        /\ IsPath(SubSeq(text, Len(front) + 1, Len(text)))

\* C21: once the url is validated, it is reported supported exactly when
\* it has one of the three forms, with or without scheme and www.
C21_Classifier ==
  ~urlEffect /\ url # << >> =>
    (isValid = "true" <=> SupportedForm(url)) /\ isValid \in {"true", "false"}

\* a bilibili url without scheme and with www., validated as supported
C21_Witness ==
  /\ ~urlEffect
  /\ url = <<"www.", "bilibili.com", "/video/", "x">>
  /\ isValid = "true"

\* the fragments of the generated commands that hold a line break
WithLineBreak ==
  {"TS_FILE=\"/tmp/yt_dlp_ts_$(date +%s)\" && touch \"$TS_FILE\" && \\\n",
   "\" && \\\n",
   "found_subs=false; \\\n",
   "done; \\\n"}

\* the positions of command at which the fragments of u stand
Occurrences(u, command) ==
  {i \in 1..(Len(command) - Len(u) + 1) :
     SubSeq(command, i, i + Len(u) - 1) = u}

\* the fragment at position i of command is a double quote, alone or with
\* what is outside the quotes
QuoteBefore(command, i) == i >= 1 /\ command[i] \in {" \"", "\""}
QuoteAfter(command, i) ==
  i <= Len(command) /\ command[i] \in {"\"", "\" && \\\n", "\" -o \""}

\* C22: for the video and audio modes and a supported url, the generated
\* command is one line and holds the url once, in double quotes.
C22_SingleLineQuotedUrl ==
  /\ ~urlEffect
  /\ isValid = "true"
  /\ type \in {"video", "audio"}
  => /\ \A i \in 1..Len(Rendered) : Rendered[i] \notin WithLineBreak
     /\ Cardinality(Occurrences(url, Rendered)) = 1
     /\ \A i \in Occurrences(url, Rendered) :
          /\ QuoteBefore(Rendered, i - 1)
          /\ QuoteAfter(Rendered, i + Len(url))

\* the part of C22 that the code keeps: the url once, in double quotes
C22_QuotedUrlOnce ==
  /\ ~urlEffect
  /\ isValid = "true"
  /\ type \in {"video", "audio"}
  => /\ Cardinality(Occurrences(url, Rendered)) = 1
     /\ \A i \in Occurrences(url, Rendered) :
          /\ QuoteBefore(Rendered, i - 1)
          /\ QuoteAfter(Rendered, i + Len(url))

\* C22 for the audio mode alone
C22_AudioSingleLine ==
  /\ ~urlEffect
  /\ isValid = "true"
  /\ type = "audio"
  => \A i \in 1..Len(Rendered) : Rendered[i] \notin WithLineBreak

\* C23: no rename step of the subtitles command replaces a file that is
\* already there; the rename of the labelling loop runs only when
\* [ ! -f "$new_name" ], so the renames that could are those of the
\* Whisper fallback.
C23_NoRenameOverwrites ==
  \A r \in RunIds : ~runs[r].overwrote

\* C24: however the output of the child process is cut into chunks, every
\* download-progress value emitted is the value of a percentage the
\* process has printed.
C24_NoFragmentValue ==
  \A p \in ProcIds :
    Concat(procs[p].stdout) = Stream =>
      \A k \in 1..Len(emitted[procs[p].socket]) :
        LET e == emitted[procs[p].socket][k]
        IN  e.event = "download-progress" =>
              e.arg \in {m.value : m \in Markers}

(***************************************************************************)
(* Properties of the run state of the client (SpecUI).                     *)
(***************************************************************************)
\* C25: in every state of the client, isDownloading is true if and only if
\* downloadStatus is 'running'.
C25_DownloadingIffRunning ==
  isDownloading <=> downloadStatus = "running"

\* a run was started, its download-complete was received and the panel
\* was dismissed
C25_Witness ==
  /\ emits >= 1
  /\ socketRef # 0
  /\ received >= 1
  /\ emitted[socketRef][received].event = "download-complete"
  /\ downloadStatus = "idle"
  /\ ~isDownloading

\* nothing is on its way to the client: every start-download it has
\* emitted has spawned its process, every process has ended and its close
\* handler has run, and the client, connected, has received every event of
\* its connection
Quiet ==
  /\ sendBuffer = << >>
  /\ timers = << >>
  /\ emits >= 1
  /\ Len(procs) = emits
  /\ \A p \in ProcIds : procs[p].closed
  /\ socketRef # 0
  /\ received = Len(emitted[socketRef])

\* C26: every run of the client that enters 'running' leaves it once its
\* process has ended, also when the socket was disconnected and connected
\* again meanwhile: the client is never left in 'running', its start
\* button disabled, when nothing more can reach it.
C26_RunEnds ==
  Quiet => downloadStatus # "running" /\ ~isDownloading

(***************************************************************************)
(* Properties of the auto-download trigger (SpecRender).                   *)
(***************************************************************************)
\* C27: when the timer of the auto-download trigger fires, start-download
\* is emitted with the command generated for the url, the mode, the output
\* path and the classification of that moment: not an empty command, not
\* a command of an earlier validity or playlist flag, and not nothing.
C27_TimerSendsCurrentCommand ==
  [][ timers # << >> /\ timers' = Tail(timers) =>
        /\ socketRef # 0
        /\ Rendered # << >>
        /\ sent'[socketRef] = Append(sent[socketRef], Rendered) ]_vars

\* C28: in what is handed to the shell, every invocation of the downloader
\* carries the progress flags, also when the command holds several (the
\* primary fetch and the fallback extraction of the subtitles command).
C28_EveryInvocationAugmented ==
  \A p \in ProcIds :
    LET shell == procs[p].spawned[3]
    IN  \A i \in 1..Len(shell) :
          shell[i] = Downloader =>
            i < Len(shell) /\ shell[i + 1] = ProgressFlags

\* C29: the endpoint answers 'started' only when it has spawned a
\* downloader command that is not empty: no shell is spawned with an empty
\* command and no 'started' is answered for a type it does not know.
C29_StartedOnlyWithCommand ==
  /\ \A p \in 1..Len(apiProcs) : apiProcs[p].spawned[3] # << >>
  /\ \A i \in 1..Len(responses) :
       LET r == responses[i]
       IN  r.status = 200 =>
             /\ r.json.command # << >>
             /\ downloadType(r.body) \in {"video", "audio", "subtitle"}

(***************************************************************************)
(* Properties of the serverless handler (SpecHandler).                     *)
(***************************************************************************)
\* C30: the handler calls createServerApp at most once per process,
\* however the requests that arrive before the first initialization is
\* over interleave, and hands a request to the app only when that
\* initialization is over.
C30_InitializedOnce ==
  /\ Len(inits) <= 1
  /\ \A c \in 1..Len(calls) :
       /\ Len(inits) >= 1
       /\ calls[c].pc = "app" => inits[1].done

\* C30 in production, where createServerApp does not suspend
C30_InitializedOnceInProduction ==
  NODE_ENV = "production" => C30_InitializedOnce

====
